---------------------------- MODULE Spec2Model ----------------------------
(***************************************************************************)
(* Model of the Pokemon battle game (js/combat.js, js/battle.js,           *)
(* js/shared.js, js/team.js, js/profile.js).                               *)
(*                                                                         *)
(* Numbers.  Every quantity the code computes in floating point is kept    *)
(* as an exact rational.  A type multiplier is a pair <<n, d>> in lowest   *)
(* terms (the chart holds 0, 0.5 and 2 only, so d is a power of two).      *)
(* Math.random() is an input: the random factor 0.85 + Math.random()*0.3   *)
(* is drawn in hundredths (85 .. 114), the critical roll in hundredths     *)
(* (0 .. 99, critical iff below 10) and the turn-order jitter              *)
(* Math.random()*20 in hundredths (0 .. 1999).                             *)
(*                                                                         *)
(* JavaScript's undefined.  An absent attack or strength is 0 (the code    *)
(* reads both with `|| 50`, which treats 0 and undefined alike); an        *)
(* absent type list is the value Undefined.                                *)
(***************************************************************************)
EXTENDS Integers, Sequences, FiniteSets, Bags, TLC

VARIABLES
    page,           \* the document that is loaded: "battle" or "team"
    gameState,      \* battle.js gameState
    battleElements, \* the battle page's DOM: is the attack button disabled, does the team grid show slot cards
    localStorage,   \* the browser's localStorage: user, team, enemy, progress
    seqs,           \* the activations of runBattleSequence that are suspended at an await
    loads,          \* the activations of loadPokemon (at most one) and handleReset suspended at a fetch
    currentTeam,    \* team.js currentTeam
    replaces,       \* the activations of handleReplace suspended at the fetch
    call            \* the call of a combat function whose result is at hand: arguments and result

vars == <<page, gameState, battleElements, localStorage, seqs, loads, currentTeam, replaces, call>>

----------------------------------------------------------------------------
(* combat.js: the type chart                                               *)

Undefined == <<"undefined">>

Zero == <<0, 1>>
Half == <<1, 2>>
One == <<1, 1>>
Double == <<2, 1>>

TYPE_EFFECTIVENESS ==
    [ normal   |-> [rock |-> Half, ghost |-> Zero, steel |-> Half],
      fire     |-> [fire |-> Half, water |-> Half, grass |-> Double, ice |-> Double,
                    bug |-> Double, rock |-> Half, dragon |-> Half, steel |-> Double],
      water    |-> [fire |-> Double, water |-> Half, grass |-> Half, ground |-> Double,
                    rock |-> Double, dragon |-> Half],
      electric |-> [water |-> Double, electric |-> Half, grass |-> Half, ground |-> Zero,
                    flying |-> Double, dragon |-> Half],
      grass    |-> [fire |-> Half, water |-> Double, grass |-> Half, poison |-> Half,
                    ground |-> Double, flying |-> Half, bug |-> Half, rock |-> Double,
                    dragon |-> Half, steel |-> Half],
      ice      |-> [fire |-> Half, water |-> Half, grass |-> Double, ice |-> Half,
                    ground |-> Double, flying |-> Double, dragon |-> Double, steel |-> Half],
      fighting |-> [normal |-> Double, ice |-> Double, poison |-> Half, flying |-> Half,
                    psychic |-> Half, bug |-> Half, rock |-> Double, ghost |-> Zero,
                    dark |-> Double, steel |-> Double, fairy |-> Half],
      poison   |-> [grass |-> Double, poison |-> Half, ground |-> Half, rock |-> Half,
                    ghost |-> Half, steel |-> Zero, fairy |-> Double],
      ground   |-> [fire |-> Double, electric |-> Double, grass |-> Half, poison |-> Double,
                    flying |-> Zero, bug |-> Half, rock |-> Double, steel |-> Double],
      flying   |-> [electric |-> Half, grass |-> Double, fighting |-> Double, bug |-> Double,
                    rock |-> Half, steel |-> Half],
      psychic  |-> [fighting |-> Double, poison |-> Double, psychic |-> Half, dark |-> Zero,
                    steel |-> Half],
      bug      |-> [fire |-> Half, grass |-> Double, fighting |-> Half, poison |-> Half,
                    flying |-> Half, psychic |-> Double, ghost |-> Half, dark |-> Double,
                    steel |-> Half, fairy |-> Half],
      rock     |-> [fire |-> Double, ice |-> Double, fighting |-> Half, ground |-> Half,
                    flying |-> Double, bug |-> Double, steel |-> Half],
      ghost    |-> [normal |-> Zero, psychic |-> Double, ghost |-> Double, dark |-> Half],
      dragon   |-> [dragon |-> Double, steel |-> Half, fairy |-> Zero],
      dark     |-> [fighting |-> Half, psychic |-> Double, ghost |-> Double, dark |-> Half,
                    fairy |-> Half],
      steel    |-> [fire |-> Half, water |-> Half, electric |-> Half, ice |-> Double,
                    rock |-> Double, steel |-> Half, fairy |-> Double],
      fairy    |-> [fire |-> Half, fighting |-> Double, poison |-> Half, dragon |-> Double,
                    dark |-> Double, steel |-> Half] ]

\* TYPE_EFFECTIVENESS[attackType] || {}
ChartRow(attackType) ==
    IF attackType \in DOMAIN TYPE_EFFECTIVENESS
    THEN TYPE_EFFECTIVENESS[attackType]
    ELSE [t \in {} |-> One]

\* a rational n/d, d a power of two, in lowest terms
RECURSIVE Lowest(_, _)
Lowest(n, d) ==
    IF n = 0 THEN <<0, 1>>
    ELSE IF n % 2 = 0 /\ d % 2 = 0 THEN Lowest(n \div 2, d \div 2)
    ELSE <<n, d>>

Times(a, b) == Lowest(a[1] * b[1], a[2] * b[2])

\* faulty variant of EffectivenessLoop: only the defender's first type is looked up
EffectivenessLoopFirstTypeOnly(effectiveness, defenderTypes, i, multiplier) ==
    IF Len(defenderTypes) > 0 /\ defenderTypes[1] \in DOMAIN effectiveness
    THEN Times(multiplier, effectiveness[defenderTypes[1]])
    ELSE multiplier

\* the loop of getTypeEffectiveness over defenderTypes[i ..]
RECURSIVE EffectivenessLoop(_, _, _, _)
EffectivenessLoop(effectiveness, defenderTypes, i, multiplier) ==
    IF i > Len(defenderTypes) THEN multiplier
    ELSE EffectivenessLoop(effectiveness, defenderTypes, i + 1,
            IF defenderTypes[i] \in DOMAIN effectiveness
            THEN Times(multiplier, effectiveness[defenderTypes[i]])
            ELSE multiplier)

\* faulty variant of getTypeEffectiveness: the attacker's last type attacks
getTypeEffectivenessOfLastType(attackerTypes, defenderTypes) ==
    IF Len(attackerTypes) = 0 THEN One
    ELSE EffectivenessLoop(ChartRow(attackerTypes[Len(attackerTypes)]), defenderTypes, 1, One)

getTypeEffectiveness(attackerTypes, defenderTypes) ==
    IF Len(attackerTypes) = 0 THEN One
    ELSE EffectivenessLoop(ChartRow(attackerTypes[1]), defenderTypes, 1, One)

\* faulty variant of getEffectivenessDescription: super effective only above 2
getEffectivenessDescriptionAboveTwo(typeMultiplier) ==
    IF typeMultiplier[1] = 0 THEN "It has no effect..."
    ELSE IF typeMultiplier[1] > 2 * typeMultiplier[2] THEN "It's super effective!"
    ELSE IF typeMultiplier[1] < typeMultiplier[2] /\ typeMultiplier[1] > 0
         THEN "It's not very effective..."
    ELSE ""

getEffectivenessDescription(typeMultiplier) ==
    IF typeMultiplier[1] = 0 THEN "It has no effect..."
    ELSE IF typeMultiplier[1] >= 2 * typeMultiplier[2] THEN "It's super effective!"
    ELSE IF typeMultiplier[1] < typeMultiplier[2] /\ typeMultiplier[1] > 0
         THEN "It's not very effective..."
    ELSE ""

----------------------------------------------------------------------------
(* combat.js: damage                                                       *)

DefaultAttack == 50
DefaultStrength == 50
CritChance == 10

\* x || 50
OrDefault(x, default) == IF x = 0 THEN default ELSE x

\* faulty variant of TypesOf: an absent type list read as the empty list
TypesOfAbsentAsEmpty(c) == IF c.types = Undefined THEN <<>> ELSE c.types

\* c.types || ['normal']
TypesOf(c) == IF c.types = Undefined THEN <<"normal">> ELSE c.types

\* Math.round of num / den, for num >= 0 and den > 0
MathRound(num, den) == (2 * num + den) \div (2 * den)

Max(a, b) == IF a >= b THEN a ELSE b
Min(a, b) == IF a <= b THEN a ELSE b

\* faulty variant of StrengthMultiplier: a slope of 0.8
StrengthMultiplierSteeper(strength) == 800 + 8 * strength

\* 0.8 + (strength / 100) * 0.7, in thousandths
StrengthMultiplier(strength) == 800 + 7 * strength

\* faulty variant of RawDamage: a critical hit doubles the damage
RawDamageDoubleCritical(baseAttack, strength, typeMultiplier, randomFactor, isCritical) ==
    MathRound(baseAttack * 2 * StrengthMultiplier(strength) * typeMultiplier[1]
                  * randomFactor * (IF isCritical THEN 2 ELSE 1),
              5 * 1000 * typeMultiplier[2] * 100)

\* (baseAttack * 0.4) * strengthMultiplier * typeMultiplier * randomFactor * critMultiplier,
\* rounded: 0.4 = 2/5, strengthMultiplier in thousandths, randomFactor in hundredths,
\* critMultiplier 3/2 or 1
RawDamage(baseAttack, strength, typeMultiplier, randomFactor, isCritical) ==
    MathRound(baseAttack * 2 * StrengthMultiplier(strength) * typeMultiplier[1]
                  * randomFactor * (IF isCritical THEN 3 ELSE 1),
              5 * 1000 * typeMultiplier[2] * 100 * (IF isCritical THEN 2 ELSE 1))

\* faulty variants of MinimumDamage: the floor of 1 applied to an immune hit too, and no
\* floor at all
MinimumDamageFloorsImmune(typeMultiplier, damage) == Max(1, damage)
MinimumDamageWithoutFloor(typeMultiplier, damage) ==
    IF typeMultiplier = Zero THEN 0 ELSE damage

\* "Minimum damage of 1 (unless immune)"
MinimumDamage(typeMultiplier, damage) ==
    IF typeMultiplier = Zero THEN 0 ELSE Max(1, damage)

calculateDamage(attacker, defender, randomFactor, critRoll) ==
    LET Result(strength, typeMultiplier, isCritical, damage, description) ==
            [ damage |-> damage,
              effectivenessMsg |-> IF isCritical /\ damage > 0
                                   THEN <<"Critical hit! ", description>>
                                   ELSE <<description>>,
              typeMultiplier |-> typeMultiplier,
              isCritical |-> isCritical,
              strengthMultiplier |-> StrengthMultiplier(strength),
              randomFactor |-> randomFactor ]
        Damage(baseAttack, strength, typeMultiplier, isCritical) ==
            Result(strength, typeMultiplier, isCritical,
                   MinimumDamage(typeMultiplier,
                       RawDamage(baseAttack, strength, typeMultiplier, randomFactor, isCritical)),
                   getEffectivenessDescription(typeMultiplier))
    IN  Damage(OrDefault(attacker.attack, DefaultAttack),
               OrDefault(attacker.strength, DefaultStrength),
               getTypeEffectiveness(TypesOf(attacker), TypesOf(defender)),
               critRoll < CritChance)

\* faulty variant of ApplyDamage: without Math.max
ApplyDamageUnclamped(hp, damage) == hp - damage

\* defender.hp = Math.max(0, defender.hp - result.damage)
ApplyDamage(hp, damage) == Max(0, hp - damage)

\* faulty variant of executeAttack: the damage is taken off the defender's full hp, so
\* a second invocation adds nothing to the first
executeAttackFromFullHp(attacker, defender, isPlayerAttack, randomFactor, critRoll) ==
    LET Outcome(result, hp) ==
            [ outcome |-> [ attacker |-> attacker.name,
                            defender |-> defender.name,
                            damage |-> result.damage,
                            effectivenessMsg |-> result.effectivenessMsg,
                            defenderFainted |-> hp <= 0,
                            isPlayerAttack |-> isPlayerAttack,
                            isCritical |-> result.isCritical,
                            typeMultiplier |-> result.typeMultiplier ],
              defender |-> [defender EXCEPT !.hp = hp] ]
        Apply(result) == Outcome(result, ApplyDamage(defender.maxHp, result.damage))
    IN  Apply(calculateDamage(attacker, defender, randomFactor, critRoll))

\* executeAttack: the outcome record and the defender after the call
executeAttack(attacker, defender, isPlayerAttack, randomFactor, critRoll) ==
    LET Outcome(result, hp) ==
            [ outcome |-> [ attacker |-> attacker.name,
                            defender |-> defender.name,
                            damage |-> result.damage,
                            effectivenessMsg |-> result.effectivenessMsg,
                            defenderFainted |-> hp <= 0,
                            isPlayerAttack |-> isPlayerAttack,
                            isCritical |-> result.isCritical,
                            typeMultiplier |-> result.typeMultiplier ],
              defender |-> [defender EXCEPT !.hp = hp] ]
        Apply(result) == Outcome(result, ApplyDamage(defender.hp, result.damage))
    IN  Apply(calculateDamage(attacker, defender, randomFactor, critRoll))

\* faulty variant of determineTurnOrder: equal speeds let the second argument act first
determineTurnOrderStrict(pokemon1, pokemon2, jitter1, jitter2) ==
    100 * OrDefault(pokemon1.strength, DefaultStrength) + jitter1
        > 100 * OrDefault(pokemon2.strength, DefaultStrength) + jitter2

\* faulty variant of determineTurnOrder: the jitter drawn from [0, 40)
determineTurnOrderWideJitter(pokemon1, pokemon2, jitter1, jitter2) ==
    100 * OrDefault(pokemon1.strength, DefaultStrength) + 2 * jitter1
        >= 100 * OrDefault(pokemon2.strength, DefaultStrength) + 2 * jitter2

\* determineTurnOrder: speed = (strength || 50) + Math.random() * 20, in hundredths
determineTurnOrder(pokemon1, pokemon2, jitter1, jitter2) ==
    100 * OrDefault(pokemon1.strength, DefaultStrength) + jitter1
        >= 100 * OrDefault(pokemon2.strength, DefaultStrength) + jitter2

----------------------------------------------------------------------------
(* profile.js: the creature catalogue (the PokeAPI) and formatPokemonData   *)

DefaultBaseStat == 50
DefaultBaseExperience == 100
MaxBaseExperience == 608

\* the records of the remote catalogue that the model's fetches can return
ApiRattata == [id |-> 19, name |-> "Rattata", hp |-> 2, attack |-> 5,
               types |-> <<"normal">>, base_experience |-> 51]
ApiPikachu == [id |-> 25, name |-> "Pikachu", hp |-> 2, attack |-> 6,
               types |-> <<"electric">>, base_experience |-> 112]
ApiGastly  == [id |-> 92, name |-> "Gastly", hp |-> 1, attack |-> 5,
               types |-> <<"ghost", "poison">>, base_experience |-> 62]
ApiDiglett == [id |-> 50, name |-> "Diglett", hp |-> 1, attack |-> 6,
               types |-> <<"ground">>, base_experience |-> 51]
ApiGengar  == [id |-> 94, name |-> "Gengar", hp |-> 1, attack |-> 5,
               types |-> <<"ghost", "poison">>, base_experience |-> 250]

formatPokemonData(apiData) ==
    LET baseHp == OrDefault(apiData.hp, DefaultBaseStat)
        gameHp == MathRound(baseHp * 3, 2)
        baseAttack == OrDefault(apiData.attack, DefaultBaseStat)
        baseExperience == OrDefault(apiData.base_experience, DefaultBaseExperience)
        strength == Min(100, Max(1, MathRound(baseExperience * 100, MaxBaseExperience)))
    IN  [ id |-> apiData.id, name |-> apiData.name, hp |-> gameHp, maxHp |-> gameHp,
          attack |-> baseAttack, types |-> apiData.types, strength |-> strength ]

\* what fetchRandomPokemon() can resolve to
RandomPokemon == {formatPokemonData(ApiGengar), formatPokemonData(ApiDiglett)}

\* what fetchRandomTeam(3) can resolve to: three distinct creatures
RandomTeams ==
    { <<formatPokemonData(ApiRattata), formatPokemonData(ApiPikachu), formatPokemonData(ApiGastly)>> }

----------------------------------------------------------------------------
(* shared.js: the profile, coins and the saved game, all in localStorage.   *)
(* An absent entry is the empty sequence, a present one a sequence of one   *)
(* value (the saved team is the team itself, a sequence of combatants).     *)

DefaultCoins == 500
RewardWinBattle == 25
RewardDefeatPokemon == 10
CostRevive == 50
CostNewPokemon == 100
CostHealAll == 75

DEFAULT_PROFILE ==
    [ coins |-> DefaultCoins,
      stats |-> [totalBattles |-> 0, totalWins |-> 0, bestStreak |-> 0, currentStreak |-> 0] ]

getUserProfile(ls) == IF ls.user = <<>> THEN DEFAULT_PROFILE ELSE ls.user[1]

saveUserProfile(ls, profile) == [ls EXCEPT !.user = <<profile>>]

\* resetUserStats: the stats back to the defaults, the rest of the profile kept
resetUserStats(ls) ==
    LET profile == getUserProfile(ls)
    IN  saveUserProfile(ls, [profile EXCEPT !.stats = DEFAULT_PROFILE.stats])

\* faulty variant of recordBattleResult: a win leaves bestStreak as it is
recordBattleResultKeepingBest(ls, won) ==
    LET profile == getUserProfile(ls)
    IN  saveUserProfile(ls,
            IF won
            THEN [ coins |-> profile.coins + RewardWinBattle,
                   stats |-> [profile.stats EXCEPT !.totalBattles = @ + 1,
                                                   !.totalWins = @ + 1,
                                                   !.currentStreak = @ + 1] ]
            ELSE [ coins |-> profile.coins,
                   stats |-> [profile.stats EXCEPT !.totalBattles = @ + 1,
                                                   !.currentStreak = 0] ])

recordBattleResult(ls, won) ==
    LET profile == getUserProfile(ls)
        battles == profile.stats.totalBattles + 1
        streak == profile.stats.currentStreak + 1
    IN  saveUserProfile(ls,
            IF won
            THEN [ coins |-> profile.coins + RewardWinBattle,
                   stats |-> [ totalBattles |-> battles,
                               totalWins |-> profile.stats.totalWins + 1,
                               currentStreak |-> streak,
                               bestStreak |-> IF streak > profile.stats.bestStreak
                                              THEN streak ELSE profile.stats.bestStreak ] ]
            ELSE [ coins |-> profile.coins,
                   stats |-> [ totalBattles |-> battles,
                               totalWins |-> profile.stats.totalWins,
                               currentStreak |-> 0,
                               bestStreak |-> profile.stats.bestStreak ] ])

getCoins(ls) == getUserProfile(ls).coins

addCoins(ls, amount) ==
    LET profile == getUserProfile(ls)
    IN  saveUserProfile(ls, [profile EXCEPT !.coins = @ + amount])

canAfford(ls, amount) == getUserProfile(ls).coins >= amount

\* faulty variant of spendCoins: without the check of the balance
spendCoinsUnchecked(ls, amount) ==
    LET profile == getUserProfile(ls)
    IN  saveUserProfile(ls, [profile EXCEPT !.coins = @ - amount])

\* spendCoins: the storage after the call (its boolean result is canAfford)
spendCoins(ls, amount) ==
    LET profile == getUserProfile(ls)
    IN  IF profile.coins >= amount
        THEN saveUserProfile(ls, [profile EXCEPT !.coins = @ - amount])
        ELSE ls

saveTeam(ls, team) == [ls EXCEPT !.team = team]
loadTeam(ls) == ls.team
clearTeam(ls) == [ls EXCEPT !.team = <<>>]

saveBattleProgress(ls, progress) == [ls EXCEPT !.progress = <<progress>>]
loadBattleProgress(ls) ==
    IF ls.progress = <<>> THEN [round |-> 1, wins |-> 0] ELSE ls.progress[1]
resetBattleProgress(ls) == saveBattleProgress(ls, [round |-> 1, wins |-> 0])

\* the saved opponent (these three are called by battle.js)
saveEnemy(ls, enemy) == [ls EXCEPT !.enemy = <<enemy>>]
loadEnemy(ls) == ls.enemy
clearEnemy(ls) == [ls EXCEPT !.enemy = <<>>]

----------------------------------------------------------------------------
(* bounds of the model                                                     *)

\* no new battle sequence starts once the profile has recorded this many battles
MaxBattles == 2
\* handleReset activations that can be waiting for their fetches together
MaxPendingResets == 1
\* handleReplace activations that can be waiting for their fetch together
MaxPendingReplaces == 1
\* runBattleSequence activations the model can hold (the code is to keep it at one)
MaxSequences == 2

\* the draws of Math.random() in a battle sequence
RandomFactors == {85, 114}
CritRolls == {5, 50}
Jitters == {0, 1999}
\* the coins of the stored profile when the model starts
StartCoins == {100}

----------------------------------------------------------------------------
(* battle.js: the game state                                               *)

maxTurns == 50

Placeholder(id) ==
    [ id |-> id, name |-> "???", hp |-> 100, maxHp |-> 100,
      attack |-> 0, types |-> Undefined, strength |-> 0 ]

\* the gameState literal, then loadUserData
InitialGameState(ls) ==
    [ round |-> loadBattleProgress(ls).round,
      wins |-> loadBattleProgress(ls).wins,
      isLoading |-> TRUE,
      isBattling |-> FALSE,
      playerTeam |-> <<Placeholder(1), Placeholder(2), Placeholder(3)>>,
      activePlayerPokemon |-> 0,
      enemyPokemon |-> Placeholder(0) ]

\* faulty variant of FindIndexAlive: the last such index
FindLastIndexAlive(team) ==
    IF \E i \in 1..Len(team) : team[i].hp > 0
    THEN (CHOOSE i \in 1..Len(team) :
              team[i].hp > 0 /\ \A j \in (i + 1)..Len(team) : team[j].hp <= 0) - 1
    ELSE -1

\* Array.prototype.findIndex(p => p.hp > 0): the first such index from 0, or -1
FindIndexAlive(team) ==
    IF \E i \in 1..Len(team) : team[i].hp > 0
    THEN (CHOOSE i \in 1..Len(team) :
              team[i].hp > 0 /\ \A j \in 1..(i - 1) : team[j].hp <= 0) - 1
    ELSE -1

\* renderTeam: the team grid shows slot cards unless the game is loading
renderBattle(gs, dom) == [dom EXCEPT !.teamCards = ~gs.isLoading]

setButtonsEnabled(dom, enabled) == [dom EXCEPT !.disabled = ~enabled]

\* no call of a combat function has a result at hand
NoCall == [fn |-> "none"]

\* a reference held by a runBattleSequence activation: live while the object is
\* still the one in gameState, else the object itself
NoObject == Placeholder(-1)
LiveRef(slot) == [live |-> TRUE, slot |-> slot, obj |-> NoObject]

PlayerOf(gs, a) ==
    IF a.playerPokemon.live THEN gs.playerTeam[a.playerPokemon.slot + 1]
    ELSE a.playerPokemon.obj
EnemyOf(gs, a) ==
    IF a.enemyPokemon.live THEN gs.enemyPokemon ELSE a.enemyPokemon.obj

\* gameState.playerTeam = ... / gameState.enemyPokemon = ...: the activations
\* keep the objects they hold
DetachTeam(gs, a) ==
    IF a.playerPokemon.live
    THEN [a EXCEPT !.playerPokemon = [live |-> FALSE, slot |-> @.slot, obj |-> PlayerOf(gs, a)]]
    ELSE a
DetachEnemy(gs, a) ==
    IF a.enemyPokemon.live
    THEN [a EXCEPT !.enemyPokemon = [live |-> FALSE, slot |-> 0, obj |-> EnemyOf(gs, a)]]
    ELSE a
Detach(gs, a) == DetachEnemy(gs, DetachTeam(gs, a))

\* one executeAttack of activation a: the game state, the activation and the call after it
Attack(gs, a, isPlayerAttack, randomFactor, critRoll) ==
    LET After(attacker, defender, r) ==
            [ gs |-> IF isPlayerAttack /\ a.enemyPokemon.live
                     THEN [gs EXCEPT !.enemyPokemon = r.defender]
                     ELSE IF ~isPlayerAttack /\ a.playerPokemon.live
                     THEN [gs EXCEPT !.playerTeam[a.playerPokemon.slot + 1] = r.defender]
                     ELSE gs,
              a |-> IF isPlayerAttack /\ ~a.enemyPokemon.live
                    THEN [a EXCEPT !.attacks = @ + 1, !.enemyPokemon.obj = r.defender]
                    ELSE IF ~isPlayerAttack /\ ~a.playerPokemon.live
                    THEN [a EXCEPT !.attacks = @ + 1, !.playerPokemon.obj = r.defender]
                    ELSE [a EXCEPT !.attacks = @ + 1],
              call |-> [ fn |-> "executeAttack", attacker |-> attacker, defender |-> defender,
                         result |-> r.outcome, after |-> r.defender ] ]
        Execute(attacker, defender) ==
            After(attacker, defender,
                  executeAttack(attacker, defender, isPlayerAttack, randomFactor, critRoll))
    IN  IF isPlayerAttack THEN Execute(PlayerOf(gs, a), EnemyOf(gs, a))
                          ELSE Execute(EnemyOf(gs, a), PlayerOf(gs, a))

\* faulty variant of LoopContinues: without the safety limit
LoopContinuesUnlimited(gs, a) == PlayerOf(gs, a).hp > 0 /\ EnemyOf(gs, a).hp > 0

\* faulty variant of LoopContinues: the limit reached one round early
LoopContinuesOneRoundShort(gs, a) ==
    PlayerOf(gs, a).hp > 0 /\ EnemyOf(gs, a).hp > 0 /\ a.turnCount < maxTurns - 1

\* the condition of the while loop of runBattleSequence
LoopContinues(gs, a) ==
    PlayerOf(gs, a).hp > 0 /\ EnemyOf(gs, a).hp > 0 /\ a.turnCount < maxTurns

\* faulty variant of LoopHead: the turn order is resolved in the first round and kept
LoopHeadCachedOrder(gs, a, jitter1, jitter2, randomFactor, critRoll) ==
    LET Shown(w) == [gs |-> w.gs, a |-> [w.a EXCEPT !.pc = "showFirst"], call |-> w.call]
        Round(playerGoesFirst) ==
            Shown(Attack(gs, [a EXCEPT !.turnCount = @ + 1, !.playerGoesFirst = playerGoesFirst],
                         playerGoesFirst, randomFactor, critRoll))
    IN  IF LoopContinues(gs, a)
        THEN Round(IF a.turnCount = 0
                   THEN determineTurnOrder(PlayerOf(gs, a), EnemyOf(gs, a), jitter1, jitter2)
                   ELSE a.playerGoesFirst)
        ELSE [gs |-> gs, a |-> [a EXCEPT !.pc = "delay500"], call |-> NoCall]

\* the head of the while loop of runBattleSequence, up to the next await
LoopHead(gs, a, jitter1, jitter2, randomFactor, critRoll) ==
    LET Shown(w) == [gs |-> w.gs, a |-> [w.a EXCEPT !.pc = "showFirst"], call |-> w.call]
        Round(playerGoesFirst) ==
            Shown(Attack(gs, [a EXCEPT !.turnCount = @ + 1, !.playerGoesFirst = playerGoesFirst],
                         playerGoesFirst, randomFactor, critRoll))
    IN  IF LoopContinues(gs, a)
        THEN Round(determineTurnOrder(PlayerOf(gs, a), EnemyOf(gs, a), jitter1, jitter2))
        ELSE [gs |-> gs, a |-> [a EXCEPT !.pc = "delay500"], call |-> NoCall]

\* seqs without its i-th activation
Without(s, i) == [k \in 1..(Len(s) - 1) |-> IF k < i THEN s[k] ELSE s[k + 1]]

\* the click on the attack button reaches handleAttack only if the button is enabled
AttackClickable == page = "battle" /\ ~battleElements.disabled

\* faulty variant of AttackRejected: the hp of the party is not consulted
AttackRejectedIgnoringFainted(gs) == gs.isLoading \/ gs.isBattling

\* faulty variant of AttackRejected: gameState.isBattling is not consulted
AttackRejectedIgnoringBusy(gs) ==
    \/ gs.isLoading
    \/ gs.playerTeam[gs.activePlayerPokemon + 1].hp <= 0
    \/ ~ \E i \in 1..Len(gs.playerTeam) : gs.playerTeam[i].hp > 0

\* the early returns of handleAttack
AttackRejected(gs) ==
    \/ gs.isLoading \/ gs.isBattling
    \/ gs.playerTeam[gs.activePlayerPokemon + 1].hp <= 0
    \/ ~ \E i \in 1..Len(gs.playerTeam) : gs.playerTeam[i].hp > 0

\* runBattleSequence before its loop: the references it captures; startHp keeps the
\* hp the two combatants had when the sequence started (the program holds no such
\* value: it is kept for the properties that speak of it)
NewSequence(gs) ==
    [ pc |-> "start", turnCount |-> 0, playerGoesFirst |-> FALSE,
      playerPokemon |-> LiveRef(gs.activePlayerPokemon),
      enemyPokemon |-> LiveRef(0), attacks |-> 0,
      startHp |-> [ player |-> gs.playerTeam[gs.activePlayerPokemon + 1].hp,
                    enemy |-> gs.enemyPokemon.hp ] ]

\* handleAttack, with the part of runBattleSequence up to its first await
HandleAttack ==
    /\ AttackClickable
    /\ getUserProfile(localStorage).stats.totalBattles < MaxBattles
    /\ Len(seqs) < MaxSequences
    /\ IF AttackRejected(gameState)
       THEN UNCHANGED <<gameState, battleElements, seqs, call>>
       ELSE \E jitter1 \in Jitters, jitter2 \in Jitters,
               randomFactor \in RandomFactors, critRoll \in CritRolls :
            LET Started(w) ==
                    /\ gameState' = w.gs
                    /\ seqs' = Append(seqs, w.a)
                    /\ call' = w.call
                    /\ battleElements' = setButtonsEnabled(battleElements, FALSE)
            IN  Started(LoopHead([gameState EXCEPT !.isBattling = TRUE],
                                 NewSequence(gameState),
                                 jitter1, jitter2, randomFactor, critRoll))
    /\ UNCHANGED <<page, localStorage, loads, currentTeam, replaces>>


\* faulty variant of FirstAttackEnds: without the break of the opponent-first branch
FirstAttackEndsOnlyForPlayer(a, gs) == a.playerGoesFirst /\ EnemyOf(gs, a).hp <= 0

\* faulty variant of FirstAttackEnds: the loop is never left after the first attack
FirstAttackNeverEnds(a, gs) == FALSE

\* `if (enemyPokemon.hp <= 0) break` / `if (playerPokemon.hp <= 0) break` after the
\* round's first attack
FirstAttackEnds(a, gs) ==
    IF a.playerGoesFirst THEN EnemyOf(gs, a).hp <= 0 ELSE PlayerOf(gs, a).hp <= 0

\* the activation i of runBattleSequence resumes after `await showAttackResult` of
\* the round's first attack
SeqAfterFirstAttack(i) ==
    /\ page = "battle" /\ i \in 1..Len(seqs) /\ seqs[i].pc = "showFirst"
    /\ LET a == seqs[i]
           fainted == FirstAttackEnds(a, gameState)
       IN  /\ seqs' = [seqs EXCEPT ![i] =
                         IF fainted THEN [a EXCEPT !.pc = "delay500", !.playerGoesFirst = FALSE]
                                    ELSE [a EXCEPT !.pc = "delay800"]]
           /\ localStorage' = IF a.playerGoesFirst THEN localStorage
                              ELSE saveTeam(localStorage, gameState.playerTeam)
    /\ battleElements' = renderBattle(gameState, battleElements)
    /\ call' = NoCall
    /\ UNCHANGED <<page, gameState, loads, currentTeam, replaces>>

\* faulty variant of SeqSecondAttack: the round goes on without its second attack
SeqSecondAttackSkipped(i) ==
    /\ page = "battle" /\ i \in 1..Len(seqs) /\ seqs[i].pc = "delay800"
    /\ seqs' = [seqs EXCEPT ![i] = [@ EXCEPT !.pc = "showSecond"]]
    /\ call' = NoCall
    /\ UNCHANGED <<page, gameState, battleElements, localStorage, loads, currentTeam, replaces>>

\* ... after `await delay(800)`: the round's second attack
SeqSecondAttack(i) ==
    /\ page = "battle" /\ i \in 1..Len(seqs) /\ seqs[i].pc = "delay800"
    /\ \E randomFactor \in RandomFactors, critRoll \in CritRolls :
         LET Shown(w) ==
                 /\ gameState' = w.gs
                 /\ seqs' = [seqs EXCEPT ![i] = [w.a EXCEPT !.pc = "showSecond"]]
                 /\ call' = w.call
         IN  Shown(Attack(gameState, seqs[i], ~seqs[i].playerGoesFirst, randomFactor, critRoll))
    /\ UNCHANGED <<page, battleElements, localStorage, loads, currentTeam, replaces>>

\* ... after `await showAttackResult` of the round's second attack
SeqAfterSecondAttack(i) ==
    /\ page = "battle" /\ i \in 1..Len(seqs) /\ seqs[i].pc = "showSecond"
    /\ seqs' = [seqs EXCEPT ![i] = [@ EXCEPT !.pc = "delay600"]]
    /\ localStorage' = IF seqs[i].playerGoesFirst
                       THEN saveTeam(localStorage, gameState.playerTeam)
                       ELSE localStorage
    /\ battleElements' = renderBattle(gameState, battleElements)
    /\ call' = NoCall
    /\ UNCHANGED <<page, gameState, loads, currentTeam, replaces>>

\* ... after `await delay(600)`: the loop condition and, if it holds, the next round
SeqNextRound(i) ==
    /\ page = "battle" /\ i \in 1..Len(seqs) /\ seqs[i].pc = "delay600"
    /\ \E jitter1 \in Jitters, jitter2 \in Jitters,
          randomFactor \in RandomFactors, critRoll \in CritRolls :
         LET Resumed(w) ==
                 /\ gameState' = w.gs
                 /\ seqs' = [seqs EXCEPT ![i] = w.a]
                 /\ call' = w.call
         IN  Resumed(LoopHead(gameState, seqs[i], jitter1, jitter2, randomFactor, critRoll))
    /\ UNCHANGED <<page, battleElements, localStorage, loads, currentTeam, replaces>>

\* faulty variant of BattleWinStart: without gameState.round++
BattleWinStartKeepingRound(gs, ls) ==
    LET g == [gs EXCEPT !.wins = @ + 1]
    IN  [ gs |-> g,
          ls |-> addCoins(recordBattleResult(
                              saveBattleProgress(ls, [round |-> g.round, wins |-> g.wins]), TRUE),
                          RewardDefeatPokemon) ]

\* faulty variant of BattleWinStart: without addCoins(REWARDS.DEFEAT_POKEMON)
BattleWinStartWithoutDefeatReward(gs, ls) ==
    LET g == [gs EXCEPT !.wins = @ + 1, !.round = @ + 1]
    IN  [ gs |-> g,
          ls |-> recordBattleResult(
                     saveBattleProgress(ls, [round |-> g.round, wins |-> g.wins]), TRUE) ]

\* handleBattleWin up to `await delay(2000)`
BattleWinStart(gs, ls) ==
    LET g == [gs EXCEPT !.wins = @ + 1, !.round = @ + 1]
    IN  [ gs |-> g,
          ls |-> addCoins(recordBattleResult(
                              saveBattleProgress(ls, [round |-> g.round, wins |-> g.wins]), TRUE),
                          RewardDefeatPokemon) ]

\* faulty variant of PokemonFaintedStart: the game-over branch keeps the counters
PokemonFaintedStartKeepingCounters(gs, ls) ==
    LET saved == saveTeam(ls, gs.playerTeam)
        alivePokemon == FindIndexAlive(gs.playerTeam)
    IN  IF alivePokemon >= 0
        THEN [ gs |-> [gs EXCEPT !.activePlayerPokemon = alivePokemon], ls |-> saved,
               pc |-> "faintDelay" ]
        ELSE [ gs |-> gs, ls |-> recordBattleResult(saved, FALSE), pc |-> "defeatDelay" ]

\* handlePokemonFainted up to its await
PokemonFaintedStart(gs, ls) ==
    LET saved == saveTeam(ls, gs.playerTeam)
        alivePokemon == FindIndexAlive(gs.playerTeam)
    IN  IF alivePokemon >= 0
        THEN [ gs |-> [gs EXCEPT !.activePlayerPokemon = alivePokemon], ls |-> saved,
               pc |-> "faintDelay" ]
        ELSE [ gs |-> [gs EXCEPT !.wins = 0, !.round = 1],
               ls |-> resetBattleProgress(recordBattleResult(saved, FALSE)),
               pc |-> "defeatDelay" ]

\* faulty variant of PlayerWins: every sequence the player's combatant survives is a win
PlayerWinsUnlessFainted(gs, a) == PlayerOf(gs, a).hp > 0

\* `if (enemyPokemon.hp <= 0)` after the loop of runBattleSequence
PlayerWins(gs, a) == EnemyOf(gs, a).hp <= 0

\* ... after `await delay(500)`: the outcome of the sequence
SeqOutcome(i) ==
    /\ page = "battle" /\ i \in 1..Len(seqs) /\ seqs[i].pc = "delay500"
    /\ LET a == seqs[i]
       IN  IF PlayerWins(gameState, a)
           THEN LET w == BattleWinStart(gameState, localStorage)
                IN  /\ gameState' = w.gs
                    /\ localStorage' = w.ls
                    /\ seqs' = [seqs EXCEPT ![i] = [a EXCEPT !.pc = "winDelay"]]
                    /\ UNCHANGED battleElements
           ELSE IF PlayerOf(gameState, a).hp <= 0
           THEN LET w == PokemonFaintedStart(gameState, localStorage)
                IN  /\ gameState' = w.gs
                    /\ localStorage' = w.ls
                    /\ seqs' = [seqs EXCEPT ![i] = [a EXCEPT !.pc = w.pc]]
                    /\ battleElements' = IF w.pc = "faintDelay"
                                         THEN renderBattle(w.gs, battleElements)
                                         ELSE battleElements
           ELSE /\ gameState' = [gameState EXCEPT !.isBattling = FALSE]
                /\ seqs' = Without(seqs, i)
                /\ UNCHANGED <<localStorage, battleElements>>
    /\ UNCHANGED <<page, loads, currentTeam, replaces, call>>

\* faulty variant of NewChallengerButtons: the button is enabled for the retry
NewChallengerButtonsEnabled(dom) == setButtonsEnabled(dom, TRUE)

\* setButtonsEnabled(false) before the fetch of handleBattleWin
NewChallengerButtons(dom) == setButtonsEnabled(dom, FALSE)

\* handleBattleWin after `await delay(2000)`: the fetch of a new enemy is issued
SeqWinFetch(i) ==
    /\ page = "battle" /\ i \in 1..Len(seqs) /\ seqs[i].pc = "winDelay"
    /\ seqs' = [seqs EXCEPT ![i] = [@ EXCEPT !.pc = "winFetch"]]
    /\ battleElements' = NewChallengerButtons(battleElements)
    /\ UNCHANGED <<page, gameState, localStorage, loads, currentTeam, replaces, call>>

\* fetchRandomPokemon() resolves in handleBattleWin; runBattleSequence then ends
SeqWinFetched(i) ==
    /\ page = "battle" /\ i \in 1..Len(seqs) /\ seqs[i].pc = "winFetch"
    /\ \E newEnemy \in RandomPokemon :
         LET g == [gameState EXCEPT !.enemyPokemon = newEnemy, !.isBattling = FALSE]
         IN  /\ gameState' = g
             /\ localStorage' = saveEnemy(localStorage, newEnemy)
             /\ battleElements' = setButtonsEnabled(renderBattle(g, battleElements), TRUE)
    /\ seqs' = [k \in 1..(Len(seqs) - 1) |-> DetachEnemy(gameState, Without(seqs, i)[k])]
    /\ UNCHANGED <<page, loads, currentTeam, replaces, call>>

\* faulty variant of BattleWinCatch: the win is taken back
BattleWinCatchRevertingWin(gs) == [gs EXCEPT !.wins = @ - 1, !.round = @ - 1]

\* the catch block of handleBattleWin: a log entry and a message
BattleWinCatch(gs) == gs

\* faulty variant of SeqWinFetchFailed: the catch block enables the attack button again
SeqWinFetchFailedEnablingButton(i) ==
    /\ page = "battle" /\ i \in 1..Len(seqs) /\ seqs[i].pc = "winFetch"
    /\ gameState' = [BattleWinCatch(gameState) EXCEPT !.isBattling = FALSE]
    /\ battleElements' = setButtonsEnabled(battleElements, TRUE)
    /\ seqs' = Without(seqs, i)
    /\ UNCHANGED <<page, localStorage, loads, currentTeam, replaces, call>>

\* faulty variant of SeqWinFetchFailed: the failure is not caught, and runBattleSequence
\* ends without reaching `gameState.isBattling = false`
SeqWinFetchFailedUncaught(i) ==
    /\ page = "battle" /\ i \in 1..Len(seqs) /\ seqs[i].pc = "winFetch"
    /\ seqs' = Without(seqs, i)
    /\ UNCHANGED <<page, gameState, battleElements, localStorage, loads, currentTeam, replaces, call>>

\* fetchRandomPokemon() rejects in handleBattleWin; runBattleSequence then ends
SeqWinFetchFailed(i) ==
    /\ page = "battle" /\ i \in 1..Len(seqs) /\ seqs[i].pc = "winFetch"
    /\ gameState' = [BattleWinCatch(gameState) EXCEPT !.isBattling = FALSE]
    /\ seqs' = Without(seqs, i)
    /\ UNCHANGED <<page, battleElements, localStorage, loads, currentTeam, replaces, call>>

\* handlePokemonFainted after `await delay(1500)`; runBattleSequence then ends
SeqFaintedEnd(i) ==
    /\ page = "battle" /\ i \in 1..Len(seqs) /\ seqs[i].pc = "faintDelay"
    /\ gameState' = [gameState EXCEPT !.isBattling = FALSE]
    /\ battleElements' = setButtonsEnabled(battleElements, TRUE)
    /\ seqs' = Without(seqs, i)
    /\ UNCHANGED <<page, localStorage, loads, currentTeam, replaces, call>>

\* handlePokemonFainted after `await delay(2000)` (game over); runBattleSequence then ends
SeqDefeatEnd(i) ==
    /\ page = "battle" /\ i \in 1..Len(seqs) /\ seqs[i].pc = "defeatDelay"
    /\ gameState' = [gameState EXCEPT !.isBattling = FALSE]
    /\ seqs' = Without(seqs, i)
    /\ UNCHANGED <<page, battleElements, localStorage, loads, currentTeam, replaces, call>>


----------------------------------------------------------------------------
(* battle.js: loading, reset and switching                                 *)

\* the end of loadPokemon's try block, from "Update game state"
LoadComplete(gs, dom, team, enemy) ==
    LET activeIndex == FindIndexAlive(team)
        g == [gs EXCEPT !.playerTeam = team, !.enemyPokemon = enemy, !.isLoading = FALSE,
                        !.activePlayerPokemon = IF activeIndex >= 0 THEN activeIndex ELSE 0]
    IN  [gs |-> g, dom |-> setButtonsEnabled(renderBattle(g, dom), TRUE)]

\* loadPokemon from "Check for existing saved enemy": it completes, or waits for the fetch
LoadEnemy(gs, dom, ls, team) ==
    IF loadEnemy(ls) # <<>>
    THEN LET w == LoadComplete(gs, dom, team, loadEnemy(ls)[1])
         IN  [gs |-> w.gs, dom |-> w.dom, ls |-> ls, load |-> <<>>]
    ELSE [gs |-> gs, dom |-> dom, ls |-> ls, load |-> <<[stage |-> "enemy", team |-> team]>>]

\* loadPokemon from its start, up to its first await or its end
LoadPokemonStart(gs, dom, ls) ==
    IF Len(loadTeam(ls)) = 3
    THEN LoadEnemy(gs, dom, ls, loadTeam(ls))
    ELSE [gs |-> gs, dom |-> dom, ls |-> ls, load |-> <<[stage |-> "team", team |-> <<>>]>>]

\* initBattle up to the first await of loadPokemon, in a fresh document
InitBattle(ls) ==
    LoadPokemonStart(InitialGameState(ls), [disabled |-> TRUE, teamCards |-> FALSE], ls)

\* the activations of runBattleSequence after gameState's team and enemy are replaced
Detached == [k \in 1..Len(seqs) |-> Detach(gameState, seqs[k])]

\* loadPokemon: fetchRandomTeam(3) resolves
LoadTeamFetched ==
    /\ page = "battle" /\ loads.load # <<>> /\ loads.load[1].stage = "team"
    /\ \E team \in RandomTeams :
         LET w == LoadEnemy(gameState, battleElements, saveTeam(localStorage, team), team)
         IN  /\ gameState' = w.gs
             /\ battleElements' = w.dom
             /\ localStorage' = w.ls
             /\ loads' = [loads EXCEPT !.load = w.load]
             /\ seqs' = IF w.load = <<>> THEN Detached ELSE seqs
    /\ UNCHANGED <<page, currentTeam, replaces, call>>

\* loadPokemon: fetchRandomPokemon() resolves
LoadEnemyFetched ==
    /\ page = "battle" /\ loads.load # <<>> /\ loads.load[1].stage = "enemy"
    /\ \E enemy \in RandomPokemon :
         LET w == LoadComplete(gameState, battleElements, loads.load[1].team, enemy)
         IN  /\ gameState' = w.gs
             /\ battleElements' = w.dom
             /\ localStorage' = saveEnemy(localStorage, enemy)
    /\ loads' = [loads EXCEPT !.load = <<>>]
    /\ seqs' = Detached
    /\ UNCHANGED <<page, currentTeam, replaces, call>>

\* loadPokemon: a fetch rejects (the catch block)
LoadFailed ==
    /\ page = "battle" /\ loads.load # <<>>
    /\ loads' = [loads EXCEPT !.load = <<>>]
    /\ gameState' = [gameState EXCEPT !.isLoading = FALSE]
    /\ UNCHANGED <<page, battleElements, localStorage, seqs, currentTeam, replaces, call>>

\* handleReset up to its first await (the user confirms)
HandleReset ==
    /\ page = "battle"
    /\ loads.resets < MaxPendingResets
    /\ IF gameState.isBattling
       THEN UNCHANGED <<gameState, battleElements, localStorage, loads>>
       ELSE LET g == [gameState EXCEPT !.round = 1, !.wins = 0, !.isLoading = TRUE,
                                       !.activePlayerPokemon = 0]
            IN  /\ gameState' = g
                /\ localStorage' = resetBattleProgress(clearEnemy(clearTeam(localStorage)))
                /\ battleElements' = setButtonsEnabled(renderBattle(g, battleElements), FALSE)
                /\ loads' = [loads EXCEPT !.resets = @ + 1]
    /\ UNCHANGED <<page, seqs, currentTeam, replaces, call>>

\* handleReset: fetchRandomTeam(3) and then fetchRandomPokemon() have resolved (between
\* the two awaits the activation touches nothing)
ResetFetched ==
    /\ page = "battle" /\ loads.resets > 0
    /\ \E team \in RandomTeams, enemy \in RandomPokemon :
         LET g == [gameState EXCEPT !.playerTeam = team, !.enemyPokemon = enemy,
                                    !.isLoading = FALSE]
         IN  /\ gameState' = g
             /\ localStorage' = saveTeam(localStorage, team)
             /\ battleElements' = setButtonsEnabled(renderBattle(g, battleElements), TRUE)
    /\ loads' = [loads EXCEPT !.resets = @ - 1]
    /\ seqs' = Detached
    /\ UNCHANGED <<page, currentTeam, replaces, call>>

\* handleReset: one of its two fetches rejects (the catch block)
ResetFailed ==
    /\ page = "battle" /\ loads.resets > 0
    /\ loads' = [loads EXCEPT !.resets = @ - 1]
    /\ gameState' = [gameState EXCEPT !.isLoading = FALSE]
    /\ UNCHANGED <<page, battleElements, localStorage, seqs, currentTeam, replaces, call>>

\* the battle page is loaded again after a total defeat ("... or refresh for a new
\* team"): a new document, initBattle
Refresh ==
    /\ page = "battle"
    /\ Len(seqs) = 0 /\ loads = [load |-> <<>>, resets |-> 0]
    /\ ~gameState.isLoading /\ ~gameState.isBattling
    /\ battleElements.disabled
    /\ \A k \in 1..Len(gameState.playerTeam) : gameState.playerTeam[k].hp <= 0
    /\ LET w == InitBattle(localStorage)
       IN  /\ gameState' = w.gs
           /\ battleElements' = w.dom
           /\ localStorage' = w.ls
           /\ loads' = [load |-> w.load, resets |-> 0]
    /\ call' = NoCall
    /\ UNCHANGED <<page, seqs, currentTeam, replaces>>

\* the click on a team card reaches handlePokemonSelect only if the grid shows slot
\* cards and the game is not loading
HandlePokemonSelect(slot) ==
    /\ page = "battle" /\ battleElements.teamCards /\ ~gameState.isLoading
    /\ slot \in 0..(Len(gameState.playerTeam) - 1)
    /\ IF gameState.isBattling \/ gameState.playerTeam[slot + 1].hp <= 0
          \/ slot = gameState.activePlayerPokemon
       THEN UNCHANGED <<gameState, battleElements>>
       ELSE LET g == [gameState EXCEPT !.activePlayerPokemon = slot]
            IN  /\ gameState' = g
                /\ battleElements' = renderBattle(g, battleElements)
    /\ UNCHANGED <<page, localStorage, seqs, loads, currentTeam, replaces, call>>

----------------------------------------------------------------------------
(* the documents: index.html (battle.js) and team.html (team.js)           *)

\* the gameState literal of a document that has not run initBattle
NoGame == InitialGameState([progress |-> <<>>])

\* team.html is opened from the battle page (every activation of the old document is
\* gone): initTeam, loadTeamData
OpenTeamPage ==
    /\ page = "battle"
    /\ page' = "team"
    /\ currentTeam' = loadTeam(localStorage)
    /\ replaces' = EmptyBag
    /\ gameState' = NoGame
    /\ battleElements' = [disabled |-> TRUE, teamCards |-> FALSE]
    /\ seqs' = <<>>
    /\ loads' = [load |-> <<>>, resets |-> 0]
    /\ call' = NoCall
    /\ UNCHANGED localStorage

\* faulty variant of Healed: one point too many
HealedBeyondMax(pokemon) == [pokemon EXCEPT !.hp = pokemon.maxHp + 1]

\* pokemon.hp = pokemon.maxHp
Healed(pokemon) == [pokemon EXCEPT !.hp = pokemon.maxHp]

handleRevive(index) ==
    /\ page = "team" /\ index \in 0..(Len(currentTeam) - 1)
    /\ IF currentTeam[index + 1].hp > 0 \/ ~canAfford(localStorage, CostRevive)
       THEN UNCHANGED <<currentTeam, localStorage>>
       ELSE LET team == [currentTeam EXCEPT ![index + 1] = Healed(currentTeam[index + 1])]
            IN  /\ currentTeam' = team
                /\ localStorage' = saveTeam(spendCoins(localStorage, CostRevive), team)
    /\ UNCHANGED <<page, gameState, battleElements, seqs, loads, replaces, call>>

\* handleReplace up to its await
handleReplace(index) ==
    /\ page = "team" /\ index \in 0..(Len(currentTeam) - 1)
    /\ BagCardinality(replaces) < MaxPendingReplaces
    /\ IF ~canAfford(localStorage, CostNewPokemon)
       THEN UNCHANGED <<localStorage, replaces>>
       ELSE /\ localStorage' = spendCoins(localStorage, CostNewPokemon)
            /\ replaces' = replaces (+) SetToBag({index})
    /\ UNCHANGED <<page, gameState, battleElements, seqs, loads, currentTeam, call>>

\* handleReplace: fetchRandomPokemon() resolves
ReplaceFetched ==
    /\ page = "team"
    /\ \E index \in BagToSet(replaces), newPokemon \in RandomPokemon :
         LET team == [currentTeam EXCEPT ![index + 1] = newPokemon]
         IN  /\ currentTeam' = team
             /\ localStorage' = saveTeam(localStorage, team)
             /\ replaces' = replaces (-) SetToBag({index})
    /\ UNCHANGED <<page, gameState, battleElements, seqs, loads, call>>

\* faulty variant of ReplaceCatch: without the refund
ReplaceCatchWithoutRefund(ls) == ls

\* the catch block of handleReplace: addCoins(COSTS.NEW_POKEMON)
ReplaceCatch(ls) == addCoins(ls, CostNewPokemon)

\* handleReplace: fetchRandomPokemon() rejects (the catch block)
ReplaceFailed ==
    /\ page = "team"
    /\ \E index \in BagToSet(replaces) : replaces' = replaces (-) SetToBag({index})
    /\ localStorage' = ReplaceCatch(localStorage)
    /\ UNCHANGED <<page, gameState, battleElements, seqs, loads, currentTeam, call>>

handleHealAll ==
    /\ page = "team"
    /\ IF (~ \E i \in 1..Len(currentTeam) : currentTeam[i].hp < currentTeam[i].maxHp)
          \/ ~canAfford(localStorage, CostHealAll)
       THEN UNCHANGED <<currentTeam, localStorage>>
       ELSE LET team == [i \in 1..Len(currentTeam) |-> Healed(currentTeam[i])]
            IN  /\ currentTeam' = team
                /\ localStorage' = saveTeam(spendCoins(localStorage, CostHealAll), team)
    /\ UNCHANGED <<page, gameState, battleElements, seqs, loads, replaces, call>>

----------------------------------------------------------------------------
(* the game                                                                *)

Init ==
    \E coins \in StartCoins :
      LET ls == [ user |-> <<[DEFAULT_PROFILE EXCEPT !.coins = coins]>>,
                  team |-> <<>>, enemy |-> <<>>, progress |-> <<>> ]
          w == InitBattle(ls)
      IN  /\ page = "battle"
          /\ gameState = w.gs
          /\ battleElements = w.dom
          /\ localStorage = w.ls
          /\ loads = [load |-> w.load, resets |-> 0]
          /\ seqs = <<>>
          /\ currentTeam = <<>>
          /\ replaces = EmptyBag
          /\ call = NoCall

Next ==
    \/ HandleAttack
    \/ \E i \in 1..MaxSequences : SeqAfterFirstAttack(i)
    \/ \E i \in 1..MaxSequences : SeqSecondAttack(i)
    \/ \E i \in 1..MaxSequences : SeqAfterSecondAttack(i)
    \/ \E i \in 1..MaxSequences : SeqNextRound(i)
    \/ \E i \in 1..MaxSequences : SeqOutcome(i)
    \/ \E i \in 1..MaxSequences : SeqWinFetch(i)
    \/ \E i \in 1..MaxSequences : SeqWinFetched(i)
    \/ \E i \in 1..MaxSequences : SeqWinFetchFailed(i)
    \/ \E i \in 1..MaxSequences : SeqFaintedEnd(i)
    \/ \E i \in 1..MaxSequences : SeqDefeatEnd(i)
    \/ LoadTeamFetched
    \/ LoadEnemyFetched
    \/ LoadFailed
    \/ HandleReset
    \/ ResetFetched
    \/ ResetFailed
    \/ \E slot \in 0..2 : HandlePokemonSelect(slot)
    \/ Refresh
    \/ OpenTeamPage
    \/ \E index \in 0..2 : handleRevive(index)
    \/ \E index \in 0..2 : handleReplace(index)
    \/ ReplaceFetched
    \/ ReplaceFailed
    \/ handleHealAll

Spec == Init /\ [][Next]_vars

\* a step of an activation of runBattleSequence: a timer of delay() or of
\* showAttackResult fires, or the fetch of handleBattleWin settles
SequenceStep ==
    \E i \in 1..MaxSequences :
        \/ SeqAfterFirstAttack(i) \/ SeqSecondAttack(i) \/ SeqAfterSecondAttack(i)
        \/ SeqNextRound(i) \/ SeqOutcome(i) \/ SeqWinFetch(i) \/ SeqWinFetched(i)
        \/ SeqWinFetchFailed(i) \/ SeqFaintedEnd(i) \/ SeqDefeatEnd(i)

\* the game with its timers firing and its fetches settling: weak fairness of
\* SequenceStep, which is enabled exactly while an activation exists, written without
\* ENABLED
SpecFair == Spec /\ ([]<>(Len(seqs) = 0) \/ []<><<SequenceStep>>_vars)

----------------------------------------------------------------------------
(* long sequences: the game loaded with combatants that wear each other    *)
(* down by 1 hp a hit, or cannot hurt each other, around the limit of 50   *)
(* rounds                                                                  *)

\* a combatant of attack 1 and strength 1: each of its hits that has an effect deals 1
Fighter(id, name, hp, types) ==
    [ id |-> id, name |-> name, hp |-> hp, maxHp |-> hp,
      attack |-> 1, types |-> types, strength |-> 1 ]

DuelPlayers ==
    { Fighter(1, "Pebble", 60, <<"normal">>),
      Fighter(1, "Spark", 51, <<"electric">>),
      Fighter(1, "Flicker", 50, <<"electric">>) }

DuelEnemies ==
    { Fighter(9, "Boulder", 51, <<"normal">>),
      Fighter(9, "Cobble", 50, <<"normal">>),
      Fighter(9, "Burrow", 51, <<"ground">>),
      Fighter(9, "Wisp", 5, <<"ghost">>) }

\* the rest of the party: fainted, or with one member left
DuelBenches ==
    { << [Fighter(2, "Dust", 3, <<"normal">>) EXCEPT !.hp = 0],
         [Fighter(3, "Ash", 3, <<"normal">>) EXCEPT !.hp = 0] >>,
      << Fighter(2, "Dust", 3, <<"normal">>),
         [Fighter(3, "Ash", 3, <<"normal">>) EXCEPT !.hp = 0] >> }

\* the battle page after loadPokemon has completed with a saved team and a saved enemy
InitDuel ==
    \E player \in DuelPlayers, enemy \in DuelEnemies, bench \in DuelBenches :
      LET team == <<player>> \o bench
          ls == saveEnemy(saveTeam([ user |-> <<DEFAULT_PROFILE>>, team |-> <<>>,
                                     enemy |-> <<>>, progress |-> <<>> ], team), enemy)
          w == InitBattle(ls)
      IN  /\ page = "battle"
          /\ gameState = w.gs
          /\ battleElements = w.dom
          /\ localStorage = w.ls
          /\ loads = [load |-> w.load, resets |-> 0]
          /\ seqs = <<>>
          /\ currentTeam = <<>>
          /\ replaces = EmptyBag
          /\ call = NoCall

NextDuel ==
    \/ HandleAttack
    \/ SequenceStep

SpecDuel == InitDuel /\ [][NextDuel]_vars

\* SpecDuel with the event loop's guarantee that a timer or promise an activation of
\* runBattleSequence awaits is eventually served
SpecDuelFair == SpecDuel /\ ([]<>(Len(seqs) = 0) \/ []<><<SequenceStep>>_vars)

----------------------------------------------------------------------------
(* shared.js alone: the battle statistics of the profile, as battle.js     *)
(* records results and the profile page resets them                        *)

\* the calls made in one behaviour
MaxCalls == 7

InitStats ==
    /\ page = "profile"
    /\ gameState = NoGame
    /\ battleElements = [disabled |-> TRUE, teamCards |-> FALSE]
    /\ localStorage = [user |-> <<>>, team |-> <<>>, enemy |-> <<>>, progress |-> <<>>]
    /\ loads = [load |-> <<>>, resets |-> 0]
    /\ seqs = <<>>
    /\ currentTeam = <<>>
    /\ replaces = EmptyBag
    /\ call = [fn |-> "none", won |-> FALSE, calls |-> 0]

\* recordBattleResult(true) of handleBattleWin, recordBattleResult(false) of
\* handlePokemonFainted
CallRecordBattleResult ==
    /\ page = "profile" /\ call.calls < MaxCalls
    /\ \E won \in BOOLEAN :
         /\ localStorage' = recordBattleResult(localStorage, won)
         /\ call' = [fn |-> "recordBattleResult", won |-> won, calls |-> call.calls + 1]
    /\ UNCHANGED <<page, gameState, battleElements, seqs, loads, currentTeam, replaces>>

\* handleResetStats, confirmed
handleResetStats ==
    /\ page = "profile" /\ call.calls < MaxCalls
    /\ localStorage' = resetUserStats(localStorage)
    /\ call' = [fn |-> "resetUserStats", won |-> FALSE, calls |-> call.calls + 1]
    /\ UNCHANGED <<page, gameState, battleElements, seqs, loads, currentTeam, replaces>>

NextStats ==
    \/ CallRecordBattleResult
    \/ handleResetStats

SpecStats == InitStats /\ [][NextStats]_vars

----------------------------------------------------------------------------
(* combat.js alone: its functions applied to combatants drawn from two      *)
(* families, one that sweeps the type lists and one that sweeps the stats   *)

Types == DOMAIN TYPE_EFFECTIVENESS

\* an attacker's types: absent, empty, every single type, a type the chart does not
\* know, and a dual type (only the first counts)
AttackerTypeLists ==
    {Undefined, <<>>, <<"shadow">>, <<"fire", "water">>} \cup {<<t>> : t \in Types}

\* a defender's types: absent, empty, every single type and every pair of types
DefenderTypeLists ==
    {Undefined, <<>>} \cup {<<t>> : t \in Types}
        \cup {pair \in Types \X Types : pair[1] # pair[2]}

Combatant(name, hp, attack, strength, types) ==
    [ id |-> 0, name |-> name, hp |-> hp, maxHp |-> 200,
      attack |-> attack, types |-> types, strength |-> strength ]

TypeSweep ==
    { [ attacker |-> Combatant("Attacker", 10, 50, 50, attackerTypes),
        defender |-> Combatant("Defender", 10, 50, 50, defenderTypes) ] :
      attackerTypes \in AttackerTypeLists, defenderTypes \in DefenderTypeLists }

StatSweep ==
    { [ attacker |-> Combatant("Attacker", 10, stats[1], stats[2], types[1]),
        defender |-> Combatant("Defender", stats[3], 50, stats[4], types[2]) ] :
      stats \in {0, 1, 100} \X {0, 1, 100} \X {1, 3, 60} \X {0, 30, 100},
      types \in {Undefined, <<"normal">>, <<"fire">>}
                    \X {Undefined, <<"ghost">>, <<"grass", "bug">>, <<"water", "dragon">>} }

\* the pair of the damage example: attack 100, strength 50, normal against normal
ExampleSweep ==
    { [ attacker |-> Combatant("Attacker", 10, 100, 50, <<"normal">>),
        defender |-> Combatant("Defender", 60, 50, 50, <<"normal">>) ] }

\* the strength scores formatPokemonData can give: Math.min(100, Math.max(1, ...))
StrengthScores == 1..100

\* every strength score against a defender of the default strength
StrengthSweep ==
    { [ attacker |-> Combatant("Attacker", 10, 50, strength, <<"normal">>),
        defender |-> Combatant("Defender", 60, 50, 50, <<"normal">>) ] :
      strength \in StrengthScores }

\* the draws of Math.random() in a call of combat.js
CombatRandomFactors == {85, 100, 114}
CombatCritRolls == {9, 10}
CombatJitters == {0, 1999}

InitCombat ==
    /\ page = "combat"
    /\ gameState = NoGame
    /\ battleElements = [disabled |-> TRUE, teamCards |-> FALSE]
    /\ localStorage = [user |-> <<>>, team |-> <<>>, enemy |-> <<>>, progress |-> <<>>]
    /\ loads = [load |-> <<>>, resets |-> 0]
    /\ seqs = <<>>
    /\ currentTeam = <<>>
    /\ replaces = EmptyBag
    /\ \E input \in TypeSweep \cup StatSweep \cup ExampleSweep \cup StrengthSweep :
         call = [fn |-> "none", attacker |-> input.attacker, defender |-> input.defender]

\* getTypeEffectiveness(attacker.types || ['normal'], defender.types || ['normal']) and
\* getEffectivenessDescription of its result
CallGetTypeEffectiveness ==
    /\ page = "combat" /\ call.fn = "none"
    /\ LET Called(multiplier) ==
               call' = [ fn |-> "getTypeEffectiveness",
                         attacker |-> call.attacker, defender |-> call.defender,
                         result |-> multiplier,
                         description |-> getEffectivenessDescription(multiplier) ]
       IN  Called(getTypeEffectiveness(TypesOf(call.attacker), TypesOf(call.defender)))
    /\ UNCHANGED <<page, gameState, battleElements, localStorage, seqs, loads, currentTeam, replaces>>

CallCalculateDamage ==
    /\ page = "combat" /\ call.fn = "none"
    /\ \E randomFactor \in CombatRandomFactors, critRoll \in CombatCritRolls :
         call' = [ fn |-> "calculateDamage",
                   attacker |-> call.attacker, defender |-> call.defender,
                   randomFactor |-> randomFactor, critRoll |-> critRoll,
                   result |-> calculateDamage(call.attacker, call.defender,
                                              randomFactor, critRoll) ]
    /\ UNCHANGED <<page, gameState, battleElements, localStorage, seqs, loads, currentTeam, replaces>>

CallExecuteAttack ==
    /\ page = "combat" /\ call.fn = "none"
    /\ \E randomFactor \in CombatRandomFactors, critRoll \in CombatCritRolls,
          isPlayerAttack \in BOOLEAN :
         LET Called(r) ==
                 call' = [ fn |-> "executeAttack",
                           attacker |-> call.attacker, defender |-> call.defender,
                           randomFactor |-> randomFactor, critRoll |-> critRoll,
                           result |-> r.outcome, after |-> r.defender ]
         IN  Called(executeAttack(call.attacker, call.defender, isPlayerAttack,
                                  randomFactor, critRoll))
    /\ UNCHANGED <<page, gameState, battleElements, localStorage, seqs, loads, currentTeam, replaces>>

CallDetermineTurnOrder ==
    /\ page = "combat" /\ call.fn = "none"
    /\ \E jitter1 \in CombatJitters, jitter2 \in CombatJitters :
         call' = [ fn |-> "determineTurnOrder",
                   attacker |-> call.attacker, defender |-> call.defender,
                   jitter1 |-> jitter1, jitter2 |-> jitter2,
                   result |-> determineTurnOrder(call.attacker, call.defender,
                                                 jitter1, jitter2) ]
    /\ UNCHANGED <<page, gameState, battleElements, localStorage, seqs, loads, currentTeam, replaces>>

NextCombat ==
    \/ CallGetTypeEffectiveness
    \/ CallCalculateDamage
    \/ CallExecuteAttack
    \/ CallDetermineTurnOrder

SpecCombat == InitCombat /\ [][NextCombat]_vars

----------------------------------------------------------------------------
(* properties of combat.js (under SpecCombat)                              *)

\* the chart's entry for the attacker's primary type against one defending type
ChartEntry(attacker, defType) ==
    IF Len(TypesOf(attacker)) > 0 /\ defType \in DOMAIN ChartRow(TypesOf(attacker)[1])
    THEN ChartRow(TypesOf(attacker)[1])[defType]
    ELSE One

\* the defender's type list holds a type the attacker's primary type has no effect on
ImmuneTypeListed(attacker, defender) ==
    \E i \in 1..Len(TypesOf(defender)) : ChartEntry(attacker, TypesOf(defender)[i]) = Zero

\* the rounded product of calculateDamage, before the minimum is applied, of the call at hand
RawDamageOfCall ==
    RawDamage(OrDefault(call.attacker.attack, DefaultAttack),
              OrDefault(call.attacker.strength, DefaultStrength),
              call.result.typeMultiplier, call.randomFactor, call.result.isCritical)

\* C4: whenever the defender's type list holds a type whose chart entry for the
\* attacker's primary type is 0, getTypeEffectiveness returns 0 and calculateDamage
\* (also through executeAttack) returns a damage of exactly 0, whatever the random
\* factor and whether or not the hit is critical.
C4_ImmuneDealsNoDamage ==
    ImmuneTypeListed(call.attacker, call.defender) =>
        /\ call.fn = "getTypeEffectiveness" => call.result = Zero
        /\ call.fn = "calculateDamage" =>
               call.result.typeMultiplier = Zero /\ call.result.damage = 0
        /\ call.fn = "executeAttack" =>
               call.result.typeMultiplier = Zero /\ call.result.damage = 0

\* C4 happens: a critical hit on a defender with two types, one immune and one weak to
\* the attacker's primary type, has dealt 0.
C4_Witness ==
    /\ call.fn = "calculateDamage"
    /\ call.result.isCritical
    /\ Len(TypesOf(call.defender)) = 2
    /\ \E i, j \in 1..2 :
         /\ ChartEntry(call.attacker, TypesOf(call.defender)[i]) = Zero
         /\ ChartEntry(call.attacker, TypesOf(call.defender)[j]) = Double
    /\ call.result.damage = 0

\* C5: whenever the type multiplier is not 0, the damage calculateDamage returns (also
\* through executeAttack) is at least 1, for every attack, strength and draw, the ones
\* whose rounded product is 0 included.
C5_NonImmuneDealsAtLeastOne ==
    (call.fn \in {"calculateDamage", "executeAttack"} /\ call.result.typeMultiplier[1] # 0)
        => call.result.damage >= 1

\* C5 happens: a hit that is not immune and whose rounded product is 0 has dealt 1.
C5_Witness ==
    /\ call.fn = "calculateDamage"
    /\ call.result.typeMultiplier[1] # 0
    /\ RawDamageOfCall = 0
    /\ call.result.damage = 1

\* C7: executeAttack leaves the defender with hp max(0, old hp - damage), damage being
\* the damage of its outcome (the one calculateDamage computes for the same draws), and
\* nothing else of the defender changed; defenderFainted is true exactly when that hp is 0.
C7_ExecuteAttackAppliesDamage ==
    call.fn = "executeAttack" =>
        /\ call.result.damage
               = calculateDamage(call.attacker, call.defender,
                                 call.randomFactor, call.critRoll).damage
        /\ call.after.hp = IF call.defender.hp - call.result.damage > 0
                           THEN call.defender.hp - call.result.damage
                           ELSE 0
        /\ call.after = [call.defender EXCEPT !.hp = call.after.hp]
        /\ call.result.defenderFainted <=> call.after.hp = 0

\* C7 happens: an attack with more damage than the defender had hp has left it at 0,
\* fainted.
C7_Witness ==
    /\ call.fn = "executeAttack"
    /\ call.result.damage > call.defender.hp
    /\ call.after.hp = 0
    /\ call.result.defenderFainted

----------------------------------------------------------------------------
(* properties of the game (under Spec)                                     *)

\* the activation is inside the while loop of runBattleSequence
InLoop(a) == a.pc \in {"showFirst", "delay800", "showSecond", "delay600"}

\* a step that neither starts nor ends an activation of runBattleSequence
SameSequences == Len(seqs') = Len(seqs)

\* a step that ends the activation i of runBattleSequence, the document staying
Ends(i) == page' = "battle" /\ i \in 1..Len(seqs) /\ seqs' = Without(seqs, i)

\* the awaits left to the loop in the worst case: four per round not yet begun, and
\* those left in the round under way
AwaitsLeft(a) ==
    4 * (50 - a.turnCount)
        + CASE a.pc = "showFirst" -> 4
            [] a.pc = "delay800" -> 3
            [] a.pc = "showSecond" -> 2
            [] a.pc = "delay600" -> 1
            [] OTHER -> 4 * (a.turnCount - 50)

\* C1: at most one activation of runBattleSequence exists at any time, and a call of
\* handleAttack while gameState.isBattling is set starts none and changes nothing.
C1_SingleSequence ==
    /\ [](Len(seqs) <= 1)
    /\ [][(gameState.isBattling /\ HandleAttack) => UNCHANGED vars]_vars

\* C1 happens: the attack button is enabled while a sequence runs, so that the click
\* reaches handleAttack, which returns at once and leaves this very state.
C1_Witness ==
    /\ AttackClickable
    /\ gameState.isBattling
    /\ Len(seqs) = 1
    /\ InLoop(seqs[1])
    /\ getUserProfile(localStorage).stats.totalBattles < MaxBattles

\* C2: the loop of a sequence never begins more than 50 rounds nor executes more than
\* 100 attacks (at most two per round), and every step of an activation inside the loop
\* uses up one of a bounded number of awaits, so the loop is left after round 50 even
\* when neither combatant faints.
C2_RoundLoopTerminates ==
    /\ [](\A i \in 1..Len(seqs) :
            /\ seqs[i].turnCount <= 50
            /\ seqs[i].attacks <= 100
            /\ seqs[i].attacks <= 2 * seqs[i].turnCount
            /\ AwaitsLeft(seqs[i]) >= 0)
    /\ [][SameSequences =>
            \A i \in 1..Len(seqs) :
              /\ AwaitsLeft(seqs'[i]) <= AwaitsLeft(seqs[i])
              /\ (InLoop(seqs[i]) /\ <<seqs'[i].pc, seqs'[i].turnCount>>
                                         # <<seqs[i].pc, seqs[i].turnCount>>)
                     => AwaitsLeft(seqs'[i]) < AwaitsLeft(seqs[i])]_vars

\* C2 happens: a sequence has left its loop after 50 rounds and 100 attacks with both
\* combatants alive.
C2_Witness ==
    \E i \in 1..Len(seqs) :
      /\ seqs[i].pc = "delay500"
      /\ seqs[i].turnCount = 50
      /\ seqs[i].attacks = 100
      /\ PlayerOf(gameState, seqs[i]).hp > 0
      /\ EnemyOf(gameState, seqs[i]).hp > 0

\* the combatant the round's first attack was aimed at
FirstDefender(gs, a) == IF a.playerGoesFirst THEN EnemyOf(gs, a) ELSE PlayerOf(gs, a)

\* C3: when the first attack of a round has brought its defender to 0 hp, the sequence
\* leaves the loop at once: the next step of the activation goes to the outcome, no
\* further attack is executed in this round or later, no further round begins.  A first
\* attack that is not immune on a defender with 1 hp brings it to 0; in the first round
\* the sequence then ends after exactly one round and one attack.
C3_FirstFaintEndsSequence ==
    /\ [](\A i \in 1..Len(seqs) :
            seqs[i].pc = "showFirst" =>
              /\ seqs[i].attacks = 2 * seqs[i].turnCount - 1
              /\ (call.fn = "executeAttack" /\ call.defender.hp = 1
                    /\ call.result.typeMultiplier[1] # 0)
                     => FirstDefender(gameState, seqs[i]).hp = 0)
    /\ [][SameSequences =>
            \A i \in 1..Len(seqs) :
              /\ (seqs[i].pc = "showFirst" /\ FirstDefender(gameState, seqs[i]).hp <= 0)
                     => /\ seqs'[i].pc \in {"showFirst", "delay500"}
                        /\ seqs'[i].attacks = seqs[i].attacks
                        /\ seqs'[i].turnCount = seqs[i].turnCount
              /\ ~InLoop(seqs[i])
                     => /\ ~InLoop(seqs'[i])
                        /\ seqs'[i].attacks = seqs[i].attacks
                        /\ seqs'[i].turnCount = seqs[i].turnCount]_vars

\* C3 happens: the first attack of the first round, not immune, was aimed at a defender
\* with 1 hp, which is now at 0; the activation is about to leave the loop with one
\* round and one attack.
C3_Witness ==
    /\ Len(seqs) = 1
    /\ seqs[1].pc = "showFirst"
    /\ seqs[1].turnCount = 1
    /\ seqs[1].attacks = 1
    /\ call.fn = "executeAttack"
    /\ call.defender.hp = 1
    /\ call.result.typeMultiplier[1] # 0
    /\ FirstDefender(gameState, seqs[1]).hp = 0

\* every combatant the program holds: in gameState, in the activations, in team.js and
\* in localStorage
AllCombatants ==
    {gameState.playerTeam[k] : k \in 1..Len(gameState.playerTeam)}
        \cup {gameState.enemyPokemon}
        \cup {PlayerOf(gameState, seqs[i]) : i \in 1..Len(seqs)}
        \cup {EnemyOf(gameState, seqs[i]) : i \in 1..Len(seqs)}
        \cup {currentTeam[k] : k \in 1..Len(currentTeam)}
        \cup {loadTeam(localStorage)[k] : k \in 1..Len(loadTeam(localStorage))}
        \cup {loadEnemy(localStorage)[k] : k \in 1..Len(loadEnemy(localStorage))}

\* C6: every combatant has 0 <= hp <= maxHp in every reachable state (attacks, wins,
\* switches, resets, revives, replacements and heal-all included); a revive that takes
\* effect sets the hp of its combatant to exactly maxHp and leaves the others, a
\* heal-all that takes effect sets the hp of every combatant to exactly its maxHp.
C6_HpWithinBounds ==
    /\ [](\A c \in AllCombatants : 0 <= c.hp /\ c.hp <= c.maxHp)
    /\ [][/\ \A index \in 0..2 :
               handleRevive(index) =>
                   currentTeam' = [currentTeam EXCEPT
                                      ![index + 1].hp = currentTeam[index + 1].maxHp]
          /\ handleHealAll =>
               currentTeam' = [k \in 1..Len(currentTeam) |->
                                  [currentTeam[k] EXCEPT !.hp = currentTeam[k].maxHp]]]_vars

\* C6 happens: after one win (100 + 35 coins) a fainted combatant was revived (50) and
\* the team healed (75); every combatant of the team is at its maxHp.
C6_Witness ==
    /\ page = "team"
    /\ getCoins(localStorage) = 10
    /\ Len(currentTeam) = 3
    /\ \A k \in 1..3 : currentTeam[k].hp = currentTeam[k].maxHp
    /\ loadTeam(localStorage) = currentTeam

\* the activation i takes the step after `await delay(500)` and stays
OutcomeStep(i) ==
    /\ SameSequences
    /\ seqs[i].pc = "delay500"
    /\ seqs'[i].pc # "delay500"

\* the lowest index (from 0) of a member of the team with hp > 0 is k
LowestAlive(team, k) ==
    /\ k + 1 \in 1..Len(team)
    /\ team[k + 1].hp > 0
    /\ \A j \in 1..k : team[j].hp <= 0

\* C8: a sequence whose opponent is at 0 hp when its loop is left increments wins and
\* round by exactly 1, saves them, records the win (total wins + 1, streak + 1) and
\* grants 25 + 10 = 35 coins; it then issues the request for a replacement opponent,
\* once; it ends only when that request is settled, and when the request succeeds the
\* opponent is the supplied record, which is also saved.
C8_WinRewardsAndReplacement ==
    [][\A i \in 1..Len(seqs) :
         /\ (OutcomeStep(i) /\ EnemyOf(gameState, seqs[i]).hp <= 0)
                => /\ seqs'[i].pc = "winDelay"
                   /\ gameState'.wins = gameState.wins + 1
                   /\ gameState'.round = gameState.round + 1
                   /\ loadBattleProgress(localStorage')
                          = [round |-> gameState'.round, wins |-> gameState'.wins]
                   /\ getCoins(localStorage') = getCoins(localStorage) + 35
                   /\ getUserProfile(localStorage').stats.currentStreak
                          = getUserProfile(localStorage).stats.currentStreak + 1
                   /\ getUserProfile(localStorage').stats.totalWins
                          = getUserProfile(localStorage).stats.totalWins + 1
                   /\ gameState'.enemyPokemon = gameState.enemyPokemon
         /\ (SameSequences /\ seqs[i].pc = "winDelay")
                => /\ seqs'[i].pc \in {"winDelay", "winFetch"}
                   /\ getUserProfile(localStorage') = getUserProfile(localStorage)
         /\ (SameSequences /\ seqs[i].pc = "winFetch")
                => /\ seqs'[i].pc = "winFetch"
                   /\ getUserProfile(localStorage') = getUserProfile(localStorage)
         /\ Ends(i)
                => /\ EnemyOf(gameState, seqs[i]).hp <= 0 <=> seqs[i].pc = "winFetch"
                   /\ seqs[i].pc = "winFetch"
                          => \/ /\ gameState'.enemyPokemon \in RandomPokemon
                                /\ loadEnemy(localStorage') = <<gameState'.enemyPokemon>>
                                /\ ~battleElements'.disabled
                             \/ /\ gameState'.enemyPokemon = gameState.enemyPokemon
                                /\ localStorage' = localStorage
                   /\ getUserProfile(localStorage') = getUserProfile(localStorage)
                   /\ gameState'.wins = gameState.wins
                   /\ gameState'.round = gameState.round]_vars

\* C8 happens: the first sequence has ended with a win and the request for a
\* replacement has succeeded: one win, round 2, 100 + 35 coins, a fresh opponent.
C8_Witness ==
    /\ page = "battle"
    /\ Len(seqs) = 0
    /\ ~gameState.isBattling
    /\ gameState.wins = 1
    /\ gameState.round = 2
    /\ getCoins(localStorage) = 135
    /\ getUserProfile(localStorage).stats.currentStreak = 1
    /\ gameState.enemyPokemon \in RandomPokemon
    /\ gameState.enemyPokemon.hp = gameState.enemyPokemon.maxHp
    /\ loadEnemy(localStorage) = <<gameState.enemyPokemon>>
    /\ ~battleElements.disabled

\* C9: when the loop of a sequence is left with the opponent alive, the sequence's
\* combatant at 0 hp and some member of the team with hp > 0, the active index becomes
\* the lowest index of a member with hp > 0, wins, round, the team and the opponent are
\* unchanged, and the activation executes no further round or attack; a sequence is
\* started by handleAttack only, with the active combatant of that moment.
C9_AutoSwitch ==
    [][/\ \A i \in 1..Len(seqs) :
            /\ ( /\ OutcomeStep(i)
                 /\ EnemyOf(gameState, seqs[i]).hp > 0
                 /\ PlayerOf(gameState, seqs[i]).hp <= 0
                 /\ \E k \in 1..Len(gameState.playerTeam) : gameState.playerTeam[k].hp > 0 )
                   => /\ seqs'[i].pc = "faintDelay"
                      /\ LowestAlive(gameState.playerTeam, gameState'.activePlayerPokemon)
                      /\ gameState'.wins = gameState.wins
                      /\ gameState'.round = gameState.round
                      /\ gameState'.playerTeam = gameState.playerTeam
                      /\ gameState'.enemyPokemon = gameState.enemyPokemon
                      /\ loadBattleProgress(localStorage') = loadBattleProgress(localStorage)
                      /\ getUserProfile(localStorage') = getUserProfile(localStorage)
            /\ (SameSequences /\ seqs[i].pc = "faintDelay")
                   => /\ seqs'[i].pc = "faintDelay"
                      /\ seqs'[i].attacks = seqs[i].attacks
                      /\ seqs'[i].turnCount = seqs[i].turnCount
                      /\ call' = call
       /\ Len(seqs') > Len(seqs)
            => /\ HandleAttack
               /\ seqs'[Len(seqs')].playerPokemon = LiveRef(gameState.activePlayerPokemon)
               /\ gameState.playerTeam[gameState.activePlayerPokemon + 1].hp > 0]_vars

\* C9 happens: the sequence's combatant has fainted, the active index has moved on to
\* another member, which has hp > 0, and the activation awaits its end.
C9_Witness ==
    /\ Len(seqs) = 1
    /\ seqs[1].pc = "faintDelay"
    /\ seqs[1].playerPokemon.live
    /\ PlayerOf(gameState, seqs[1]).hp = 0
    /\ gameState.activePlayerPokemon # seqs[1].playerPokemon.slot
    /\ gameState.activePlayerPokemon > 0
    /\ gameState.playerTeam[gameState.activePlayerPokemon + 1].hp > 0

\* C10: when the loop of a sequence is left with the opponent alive, the sequence's
\* combatant at 0 hp and no member of the team with hp > 0, round becomes 1 and wins 0,
\* the saved progress becomes round 1 and wins 0, and the streak ends.
C10_TotalDefeatResetsCounters ==
    [][\A i \in 1..Len(seqs) :
         ( /\ OutcomeStep(i)
           /\ EnemyOf(gameState, seqs[i]).hp > 0
           /\ PlayerOf(gameState, seqs[i]).hp <= 0
           /\ \A k \in 1..Len(gameState.playerTeam) : gameState.playerTeam[k].hp <= 0 )
             => /\ seqs'[i].pc = "defeatDelay"
                /\ gameState'.round = 1
                /\ gameState'.wins = 0
                /\ loadBattleProgress(localStorage') = [round |-> 1, wins |-> 0]
                /\ localStorage'.progress = <<[round |-> 1, wins |-> 0]>>
                /\ getUserProfile(localStorage').stats.currentStreak = 0]_vars

\* C10 happens: after a win had been recorded every member of the team has fainted,
\* and the counters are back at round 1 and 0 wins.
C10_Witness ==
    /\ Len(seqs) = 1
    /\ seqs[1].pc = "defeatDelay"
    /\ \A k \in 1..Len(gameState.playerTeam) : gameState.playerTeam[k].hp = 0
    /\ getUserProfile(localStorage).stats.totalWins >= 1
    /\ gameState.round = 1
    /\ gameState.wins = 0
    /\ loadBattleProgress(localStorage) = [round |-> 1, wins |-> 0]

\* the activation i has left its loop with both of its combatants alive
Stalemate(i) ==
    /\ seqs[i].pc = "delay500"
    /\ PlayerOf(gameState, seqs[i]).hp > 0
    /\ EnemyOf(gameState, seqs[i]).hp > 0

\* C11: a sequence that has left its loop with both combatants at hp > 0 has completed
\* 50 rounds; it runs neither handleBattleWin nor handlePokemonFainted, and the step
\* that ends it clears isBattling and changes nothing else: wins, round, the active
\* index, the team, the opponent and the storage are as before.
C11_StalemateOutcome ==
    /\ [](\A i \in 1..Len(seqs) : Stalemate(i) => seqs[i].turnCount = 50)
    /\ [][\A i \in 1..Len(seqs) :
            Stalemate(i) =>
              /\ SameSequences => seqs'[i].pc = "delay500"
              /\ Ends(i) => /\ gameState' = [gameState EXCEPT !.isBattling = FALSE]
                            /\ ~gameState'.isBattling
                            /\ localStorage' = localStorage
                            /\ battleElements' = battleElements]_vars

\* C11 happens: a sequence has ended and left no trace but the disabled button: the
\* team and the opponent are the loaded ones, alive, nothing was won or lost, and
\* isBattling is clear.
C11_Witness ==
    /\ page = "battle"
    /\ Len(seqs) = 0
    /\ loads = [load |-> <<>>, resets |-> 0]
    /\ ~gameState.isBattling /\ ~gameState.isLoading
    /\ battleElements.disabled
    /\ gameState.playerTeam = loadTeam(localStorage)
    /\ <<gameState.enemyPokemon>> = loadEnemy(localStorage)
    /\ Len(gameState.playerTeam) = 3
    /\ gameState.playerTeam[gameState.activePlayerPokemon + 1].hp > 0
    /\ gameState.enemyPokemon.hp > 0
    /\ gameState.wins = 0 /\ gameState.round = 1
    /\ getUserProfile(localStorage).stats.totalBattles = 0

\* C12: when a sequence that has left its loop with both combatants alive ends, the
\* game is idle and a new attack is accepted: isBattling is clear, the attack button
\* is enabled, and handleAttack would start a sequence.
C12_StalemateRecoverable ==
    [][\A i \in 1..Len(seqs) :
         (Stalemate(i) /\ Ends(i)) =>
             /\ ~gameState'.isBattling
             /\ ~battleElements'.disabled
             /\ ~AttackRejected(gameState')]_vars

\* the activation i ends with its request for a replacement opponent rejected
FetchFailure(i) ==
    /\ Ends(i)
    /\ seqs[i].pc = "winFetch"
    /\ ~SeqWinFetched(i)

\* C13: issuing the request for a replacement opponent changes no combat state, and
\* neither does its failure: the team with every hp, the active index, the opponent,
\* wins, round and the storage are the same after the step that handles the failure
\* as before it; the failure is caught, so the sequence ends as usual and clears
\* isBattling.
C13_FetchFailureKeepsState ==
    [][\A i \in 1..Len(seqs) :
         /\ (SameSequences /\ seqs[i].pc = "winDelay" /\ seqs'[i].pc = "winFetch")
                => /\ gameState' = gameState
                   /\ localStorage' = localStorage
         /\ FetchFailure(i)
                => /\ gameState'.playerTeam = gameState.playerTeam
                   /\ gameState'.activePlayerPokemon = gameState.activePlayerPokemon
                   /\ gameState'.enemyPokemon = gameState.enemyPokemon
                   /\ gameState'.wins = gameState.wins
                   /\ gameState'.round = gameState.round
                   /\ gameState'.isLoading = gameState.isLoading
                   /\ ~gameState'.isBattling
                   /\ localStorage' = localStorage]_vars

\* C13 happens: a won sequence has ended without a replacement: the defeated opponent
\* is still the opponent, the win is counted, isBattling is clear.
C13_Witness ==
    /\ page = "battle"
    /\ Len(seqs) = 0
    /\ ~gameState.isBattling
    /\ gameState.enemyPokemon.hp = 0
    /\ gameState.wins = 1 /\ gameState.round = 2
    /\ loadBattleProgress(localStorage) = [round |-> 2, wins |-> 1]
    /\ \E k \in 1..Len(gameState.playerTeam) : gameState.playerTeam[k].hp > 0

\* C14 as claimed: when the failure of the request for a replacement opponent has
\* been handled, isBattling is clear, the attack button is enabled and handleAttack
\* would start a sequence.
C14_FetchFailureRetryable ==
    [][\A i \in 1..Len(seqs) :
         FetchFailure(i) =>
             /\ ~gameState'.isBattling
             /\ ~battleElements'.disabled
             /\ ~AttackRejected(gameState')]_vars

\* C14, amended: handleBattleWin disables the attack button when it issues the request
\* for a replacement opponent; the step that handles the failure of the request clears
\* isBattling, leaves the button as it is and issues no new request, so that the attack
\* command is not made available again by it.
C14_FetchFailureLeavesButtonDisabled ==
    [][\A i \in 1..Len(seqs) :
         /\ (SameSequences /\ seqs[i].pc = "winDelay" /\ seqs'[i].pc = "winFetch")
                => battleElements'.disabled
         /\ FetchFailure(i)
                => /\ ~gameState'.isBattling
                   /\ battleElements' = battleElements
                   /\ loads' = loads
                   /\ \A k \in 1..Len(seqs') : seqs'[k].pc # "winFetch"]_vars

\* C14 happens: the request has failed and nothing is pending: the defeated opponent
\* stays, isBattling is clear and the attack button is disabled.
C14_Witness ==
    /\ page = "battle"
    /\ Len(seqs) = 0
    /\ loads = [load |-> <<>>, resets |-> 0]
    /\ ~gameState.isBattling /\ ~gameState.isLoading
    /\ gameState.enemyPokemon.hp = 0
    /\ gameState.playerTeam[gameState.activePlayerPokemon + 1].hp > 0
    /\ battleElements.disabled
    /\ ~AttackClickable

\* the activation i takes the step of handlePokemonFainted that switches the active
\* combatant
AutoSwitch(i) ==
    /\ OutcomeStep(i)
    /\ seqs'[i].pc = "faintDelay"

\* C15: handlePokemonSelect while isBattling is set changes nothing, for every slot,
\* and while isBattling is set the active index changes only by the auto-switch of the
\* running sequence.
C15_NoSwitchWhileBattling ==
    [][/\ \A slot \in 0..2 :
            (gameState.isBattling /\ HandlePokemonSelect(slot)) => UNCHANGED vars
       /\ ( /\ gameState.isBattling
            /\ page' = "battle"
            /\ gameState'.activePlayerPokemon # gameState.activePlayerPokemon )
              => \E i \in 1..Len(seqs) : AutoSwitch(i)]_vars

\* C16: the combatants a sequence inside its loop attacks are the active member of
\* the team and the opponent held in gameState; nothing has replaced them or moved
\* the active index since the sequence started.
C16_SequenceOwnsCombatState ==
    \A i \in 1..Len(seqs) :
        InLoop(seqs[i]) =>
            /\ seqs[i].playerPokemon.live
            /\ seqs[i].enemyPokemon.live
            /\ seqs[i].playerPokemon.slot = gameState.activePlayerPokemon

----------------------------------------------------------------------------
(* further properties of combat.js (under SpecCombat)                      *)

\* the rationals a and b are equal
SameRational(a, b) == a[1] * b[2] = b[1] * a[2]

\* the product of the chart entries of the attacker's primary type against the
\* defender's types, written out for the lists of the sweep (at most two types)
ChartProduct(attacker, defender) ==
    LET types == TypesOf(defender)
    IN  CASE Len(types) = 0 -> <<1, 1>>
          [] Len(types) = 1 -> ChartEntry(attacker, types[1])
          [] Len(types) = 2 ->
                 << ChartEntry(attacker, types[1])[1] * ChartEntry(attacker, types[2])[1],
                    ChartEntry(attacker, types[1])[2] * ChartEntry(attacker, types[2])[2] >>

\* C17: getTypeEffectiveness returns the product of the chart entries of the
\* attacker's primary type against each of the defender's types, an entry absent from
\* the chart (or a primary type without a row) counting as 1 and an empty list giving
\* 1; fire against grass and bug gives 4, electric against ground gives 0.
C17_EffectivenessIsProduct ==
    call.fn = "getTypeEffectiveness" =>
        /\ SameRational(call.result, ChartProduct(call.attacker, call.defender))
        /\ TypesOf(call.defender) = <<>> => call.result = <<1, 1>>
        /\ (Len(TypesOf(call.attacker)) = 0
               \/ TypesOf(call.attacker)[1] \notin DOMAIN TYPE_EFFECTIVENESS)
               => call.result = <<1, 1>>
        /\ (TypesOf(call.attacker) = <<"fire">>
               /\ TypesOf(call.defender) = <<"grass", "bug">>) => call.result = <<4, 1>>
        /\ (TypesOf(call.attacker) = <<"electric">>
               /\ TypesOf(call.defender) = <<"ground">>) => call.result = <<0, 1>>

\* C17 happens: fire against grass and bug has given 2 * 2 = 4.
C17_Witness ==
    /\ call.fn = "getTypeEffectiveness"
    /\ TypesOf(call.attacker) = <<"fire">>
    /\ TypesOf(call.defender) = <<"grass", "bug">>
    /\ ChartEntry(call.attacker, "grass") = <<2, 1>>
    /\ ChartEntry(call.attacker, "bug") = <<2, 1>>
    /\ call.result = <<4, 1>>

\* C18: getTypeEffectiveness gives the same value for every attacker type list with
\* the same first type: the value of the call at hand is the value for the first type
\* alone and for the first type followed by any second type.
C18_OnlyFirstAttackerTypeCounts ==
    (call.fn = "getTypeEffectiveness" /\ Len(TypesOf(call.attacker)) > 0) =>
        LET first == TypesOf(call.attacker)[1]
            defenderTypes == TypesOf(call.defender)
        IN  /\ getTypeEffectiveness(<<first>>, defenderTypes) = call.result
            /\ \A second \in Types :
                   getTypeEffectiveness(<<first, second>>, defenderTypes) = call.result

\* C18 happens: a fire and water attacker against grass has given fire's 2, not
\* water's 1/2.
C18_Witness ==
    /\ call.fn = "getTypeEffectiveness"
    /\ TypesOf(call.attacker) = <<"fire", "water">>
    /\ TypesOf(call.defender) = <<"grass">>
    /\ TYPE_EFFECTIVENESS["water"]["grass"] = <<1, 2>>
    /\ call.result = <<2, 1>>

\* C19: every multiplier getTypeEffectiveness returns is 0, 1/4, 1/2, 1, 2 or 4, and
\* getEffectivenessDescription gives it "no effect" exactly when it is 0, "super
\* effective" exactly when it is >= 2, "not very effective" exactly when it is
\* strictly between 0 and 1, and the empty message exactly when it is 1.
C19_DescriptionMatchesMultiplier ==
    call.fn = "getTypeEffectiveness" =>
        /\ call.result \in {<<0, 1>>, <<1, 4>>, <<1, 2>>, <<1, 1>>, <<2, 1>>, <<4, 1>>}
        /\ call.description \in {"It has no effect...", "It's super effective!",
                                 "It's not very effective...", ""}
        /\ call.description = "It has no effect..." <=> call.result[1] = 0
        /\ call.description = "It's super effective!"
               <=> call.result[1] >= 2 * call.result[2]
        /\ call.description = "It's not very effective..."
               <=> (0 < call.result[1] /\ call.result[1] < call.result[2])
        /\ call.description = "" <=> call.result = <<1, 1>>

\* C19 happens: a multiplier of exactly 2 has been described as super effective.
C19_Witness ==
    /\ call.fn = "getTypeEffectiveness"
    /\ call.result = <<2, 1>>
    /\ call.description = "It's super effective!"

\* attack * 0.4 * strengthMultiplier * typeMultiplier * randomFactor * critMultiplier of
\* the call at hand as the fraction <<numerator, denominator>>: 0.4 = 2/5,
\* strengthMultiplier = (800 + 7 * strength)/1000, randomFactor in hundredths,
\* critMultiplier = 3/2 or 1
DamageProductOfCall ==
    << OrDefault(call.attacker.attack, 50) * 2
           * (800 + 7 * OrDefault(call.attacker.strength, 50))
           * call.result.typeMultiplier[1] * call.randomFactor
           * (IF call.result.isCritical THEN 3 ELSE 1),
       5 * 1000 * call.result.typeMultiplier[2] * 100
           * (IF call.result.isCritical THEN 2 ELSE 1) >>

\* Math.round of the fraction x (x >= 0): its integer part, and one more when the
\* rest is a half or more
Rounded(x) == IF 2 * (x[1] % x[2]) >= x[2] THEN (x[1] \div x[2]) + 1 ELSE x[1] \div x[2]

\* C20: for a multiplier that is not 0 the damage of calculateDamage is max(1, round(
\* attack * 0.4 * strengthMultiplier * typeMultiplier * randomFactor * critMultiplier)),
\* critMultiplier being 1.5 on a critical hit (a roll below 0.10) and 1 otherwise;
\* attack 100, strength 50, multiplier 1, random factor 1, not critical gives 46.
C20_DamageFormula ==
    (call.fn = "calculateDamage" /\ call.result.typeMultiplier[1] # 0) =>
        /\ call.result.isCritical <=> call.critRoll < 10
        /\ call.result.damage >= 1
        /\ call.result.damage > 1 => call.result.damage = Rounded(DamageProductOfCall)
        /\ call.result.damage = 1 => Rounded(DamageProductOfCall) <= 1
        /\ ( /\ call.attacker.attack = 100 /\ call.attacker.strength = 50
             /\ call.result.typeMultiplier = <<1, 1>>
             /\ call.randomFactor = 100 /\ ~call.result.isCritical )
               => call.result.damage = 46

\* C20 happens: the example has given 46, and 46 is the rounded product.
C20_Witness ==
    /\ call.fn = "calculateDamage"
    /\ call.attacker.attack = 100 /\ call.attacker.strength = 50
    /\ call.result.typeMultiplier = <<1, 1>>
    /\ call.randomFactor = 100
    /\ ~call.result.isCritical
    /\ call.result.damage = 46
    /\ DamageProductOfCall[1] = 46 * DamageProductOfCall[2]

\* C21: for every strength score in 1..100 the strength multiplier of calculateDamage
\* (in thousandths) lies between 0.8 and 1.5, is strictly increasing in the score, is
\* 1.5 at the score 100 and 1.15 at the default score 50.
C21_StrengthMultiplierRange ==
    (call.fn = "calculateDamage" /\ call.attacker.strength \in StrengthScores) =>
        /\ call.result.strengthMultiplier >= 800
        /\ call.result.strengthMultiplier <= 1500
        /\ \A lower \in StrengthScores :
               lower < call.attacker.strength
                   => StrengthMultiplier(lower) < call.result.strengthMultiplier
        /\ call.attacker.strength = 100 => call.result.strengthMultiplier = 1500
        /\ call.attacker.strength = 50 => call.result.strengthMultiplier = 1150

\* C21 happens: calculateDamage has run for the strongest attacker, whose multiplier is
\* 1.5 and above that of every weaker one.
C21_Witness ==
    /\ call.fn = "calculateDamage"
    /\ call.attacker.strength = 100
    /\ call.result.strengthMultiplier = 1500
    /\ \A lower \in 1..99 : StrengthMultiplier(lower) < 1500

\* the jittered speed of a combatant, in hundredths: its strength score (50 when it has
\* none) plus the draw
SpeedOfCall(pokemon, jitter) ==
    (IF pokemon.strength = 0 THEN 5000 ELSE 100 * pokemon.strength) + jitter

\* C22: determineTurnOrder(a, b) returns true exactly when strength(a) + jitter_a >=
\* strength(b) + jitter_b, each jitter drawn from [0, 20); when the two jittered speeds
\* are equal it returns true.
C22_TurnOrderBySpeed ==
    call.fn = "determineTurnOrder" =>
        /\ call.jitter1 \in 0..1999 /\ call.jitter2 \in 0..1999
        /\ call.result \in BOOLEAN
        /\ SpeedOfCall(call.attacker, call.jitter1) > SpeedOfCall(call.defender, call.jitter2)
               => call.result
        /\ SpeedOfCall(call.attacker, call.jitter1) < SpeedOfCall(call.defender, call.jitter2)
               => ~call.result
        /\ SpeedOfCall(call.attacker, call.jitter1) = SpeedOfCall(call.defender, call.jitter2)
               => call.result

\* C22 happens: two combatants of equal speed, the first argument acts first.
C22_Witness ==
    /\ call.fn = "determineTurnOrder"
    /\ call.attacker.strength = 100 /\ call.defender.strength = 100
    /\ call.jitter1 = call.jitter2
    /\ call.result

\* the two combatants of an activation have the same strength score
EqualStrength(gs, a) ==
    OrDefault(PlayerOf(gs, a).strength, DefaultStrength)
        = OrDefault(EnemyOf(gs, a).strength, DefaultStrength)

\* the turn orders with which the activation a can begin a round from the game state
\* gs, over the draws of that round
RoundOrders(gs, a) ==
    { LoopHead(gs, a, draw[1], draw[2], draw[3], draw[4]).a.playerGoesFirst :
        draw \in { d \in Jitters \X Jitters \X RandomFactors \X CritRolls :
                     LoopHead(gs, a, d[1], d[2], d[3], d[4]).a.pc = "showFirst" } }

\* C23: the turn order is resolved at the start of every round from fresh draws and is
\* not kept from one round to the next: between two combatants of equal strength both
\* orders are possible in every round, the first of a sequence and each later one,
\* whatever the order of the round before.
C23_TurnOrderFreshEachRound ==
    /\ \A i \in 1..Len(seqs) :
         ( /\ page = "battle" /\ seqs[i].pc = "delay600"
           /\ LoopContinues(gameState, seqs[i])
           /\ EqualStrength(gameState, seqs[i]) )
             => RoundOrders(gameState, seqs[i]) = BOOLEAN
    /\ ( /\ AttackClickable /\ ~AttackRejected(gameState)
         /\ gameState.enemyPokemon.hp > 0
         /\ EqualStrength(gameState, NewSequence(gameState)) )
           => RoundOrders([gameState EXCEPT !.isBattling = TRUE], NewSequence(gameState))
                  = BOOLEAN

\* C23 happens: in a sequence between two combatants of equal strength the party has
\* acted first in the first round, and the second round can begin with the opponent
\* acting first.
C23_Witness ==
    /\ Len(seqs) = 1
    /\ seqs[1].pc = "delay600" /\ seqs[1].turnCount = 1 /\ seqs[1].playerGoesFirst
    /\ EqualStrength(gameState, seqs[1])
    /\ FALSE \in RoundOrders(gameState, seqs[1])

\* the attacker and the defender of an executeAttack of the activation a
AttackerOf(gs, a, isPlayerAttack) == IF isPlayerAttack THEN PlayerOf(gs, a) ELSE EnemyOf(gs, a)
DefenderOf(gs, a, isPlayerAttack) == IF isPlayerAttack THEN EnemyOf(gs, a) ELSE PlayerOf(gs, a)

\* the step holds one executeAttack of an activation, a before it and b after it: the
\* defender loses the damage, and nothing else of the combat state changes
ExecuteAttackFrame(a, b) ==
    /\ call'.fn = "executeAttack"
    /\ call'.attacker = AttackerOf(gameState, a, call'.result.isPlayerAttack)
    /\ call'.defender = DefenderOf(gameState, a, call'.result.isPlayerAttack)
    /\ AttackerOf(gameState', b, call'.result.isPlayerAttack) = call'.attacker
    /\ DefenderOf(gameState', b, call'.result.isPlayerAttack)
           = [call'.defender EXCEPT !.hp = Max(0, @ - call'.result.damage)]
    /\ call'.after = DefenderOf(gameState', b, call'.result.isPlayerAttack)
    /\ b.playerPokemon.live = a.playerPokemon.live /\ b.playerPokemon.slot = a.playerPokemon.slot
    /\ b.enemyPokemon.live = a.enemyPokemon.live
    /\ gameState'.round = gameState.round /\ gameState'.wins = gameState.wins
    /\ gameState'.activePlayerPokemon = gameState.activePlayerPokemon
    /\ \A k \in 1..Len(gameState.playerTeam) :
           gameState'.playerTeam[k] # gameState.playerTeam[k]
               => /\ ~call'.result.isPlayerAttack /\ a.playerPokemon.live
                  /\ k = a.playerPokemon.slot + 1
    /\ gameState'.enemyPokemon # gameState.enemyPokemon
           => call'.result.isPlayerAttack /\ a.enemyPokemon.live
    /\ localStorage' = localStorage

\* C24: executeAttack is the single point where combat state changes during the rounds
\* of a sequence. Each invocation takes its damage off the defender's current hp, once
\* and in the step that computes it, and changes nothing else: not the attacker, not
\* the defender's other attributes, not the counters, the active index or the rest of
\* the party; so two successive invocations take damage twice. A step of the rounds
\* without an invocation leaves the hp of the sequence's two combatants as it is.
C24_ExecuteAttackOnlyMutatesDefender ==
    [][ /\ (Len(seqs') = Len(seqs) + 1)
            => ( seqs'[Len(seqs')].attacks = 1
                   => ExecuteAttackFrame(NewSequence(gameState), seqs'[Len(seqs')]) )
        /\ \A i \in 1..Len(seqs) :
             (SameSequences /\ page' = "battle") =>
               /\ seqs'[i].attacks = seqs[i].attacks + 1
                    => ExecuteAttackFrame(seqs[i], seqs'[i])
               /\ seqs'[i].attacks \in {seqs[i].attacks, seqs[i].attacks + 1}
               /\ (seqs'[i].attacks = seqs[i].attacks /\ InLoop(seqs[i]))
                    => /\ PlayerOf(gameState', seqs'[i]) = PlayerOf(gameState, seqs[i])
                       /\ EnemyOf(gameState', seqs'[i]) = EnemyOf(gameState, seqs[i])
      ]_vars

\* C24 happens: an executeAttack has hit a defender that an earlier one had already
\* hurt, and has taken its damage off what was left.
C24_Witness ==
    /\ Len(seqs) = 1 /\ seqs[1].attacks >= 2
    /\ call.fn = "executeAttack"
    /\ call.defender.hp < call.defender.maxHp
    /\ call.result.damage > 0
    /\ call.after.hp = call.defender.hp - call.result.damage

\* the combatant c with the documented defaults written out: attack 50, strength 50,
\* the single type 'normal'
WithExplicitDefaults(c) ==
    [c EXCEPT !.attack = IF @ = 0 THEN 50 ELSE @,
              !.strength = IF @ = 0 THEN 50 ELSE @,
              !.types = IF @ = Undefined THEN <<"normal">> ELSE @]

\* C25: calculateDamage and determineTurnOrder do not fail on absent attributes: an
\* absent attack is 50, an absent strength 50 and an absent type list ['normal'], and
\* the result is the result for combatants that carry those values.
C25_AbsentAttributesDefaulted ==
    /\ call.fn = "calculateDamage" =>
         /\ call.result = calculateDamage(WithExplicitDefaults(call.attacker),
                                          WithExplicitDefaults(call.defender),
                                          call.randomFactor, call.critRoll)
         /\ call.attacker.strength = 0 => call.result.strengthMultiplier = 1150
         /\ (call.attacker.types = Undefined /\ call.defender.types = Undefined)
              => call.result.typeMultiplier = <<1, 1>>
         /\ (call.attacker.types = Undefined /\ call.defender.types = <<"ghost">>)
              => call.result.damage = 0
         /\ ( /\ call.attacker.attack = 0 /\ call.attacker.strength = 0
              /\ call.result.typeMultiplier = <<1, 1>>
              /\ call.randomFactor = 100 /\ ~call.result.isCritical )
                => call.result.damage = 23
    /\ call.fn = "determineTurnOrder" =>
         call.result = determineTurnOrder(WithExplicitDefaults(call.attacker),
                                          WithExplicitDefaults(call.defender),
                                          call.jitter1, call.jitter2)

\* C25 happens: calculateDamage has run for an attacker without attack, strength and
\* types against a defender without types, and has given the damage of attack 50,
\* strength 50, normal against normal.
C25_Witness ==
    /\ call.fn = "calculateDamage"
    /\ call.attacker.attack = 0 /\ call.attacker.strength = 0
    /\ call.attacker.types = Undefined /\ call.defender.types = Undefined
    /\ call.randomFactor = 100 /\ ~call.result.isCritical
    /\ call.result.damage = 23

\* a step that handles the failure of a fetch of handleReplace
ReplaceFailure ==
    /\ page = "team" /\ page' = "team"
    /\ BagCardinality(replaces') = BagCardinality(replaces) - 1
    /\ ~ReplaceFetched

\* a step in which handleReplace issues its fetch
ReplaceIssued ==
    /\ page = "team" /\ page' = "team"
    /\ BagCardinality(replaces') = BagCardinality(replaces) + 1

\* C27: handleReplace pays COSTS.NEW_POKEMON when it issues its fetch, and the handling
\* of the fetch's failure pays the same amount back and changes nothing else, so the
\* balance is what it was before the command and the team, in memory and persisted, is
\* unchanged; a player who cannot afford the replacement has no fetch issued.
C27_ReplaceFailureRefunds ==
    [][ /\ ReplaceIssued
            => /\ canAfford(localStorage, CostNewPokemon)
               /\ getCoins(localStorage') = getCoins(localStorage) - CostNewPokemon
               /\ currentTeam' = currentTeam
               /\ localStorage'.team = localStorage.team
        /\ ReplaceFailure
            => /\ getCoins(localStorage') = getCoins(localStorage) + CostNewPokemon
               /\ currentTeam' = currentTeam
               /\ localStorage'.team = localStorage.team
               /\ localStorage'.enemy = localStorage.enemy
               /\ localStorage'.progress = localStorage.progress
        /\ (page = "team" /\ ~canAfford(localStorage, CostNewPokemon))
            => ~ReplaceIssued
      ]_vars

\* C27 happens: a replacement has been paid with the whole balance and its fetch is
\* under way; its failure gives the balance back, and the team is still the saved one.
C27_Witness ==
    /\ page = "team"
    /\ BagCardinality(replaces) = 1
    /\ getCoins(localStorage) = 0
    /\ currentTeam = loadTeam(localStorage)
    /\ getCoins(ReplaceCatch(localStorage)) = CostNewPokemon

\* the activation i counts a win: handleBattleWin begins
WinCounted(i) ==
    /\ page' = "battle" /\ SameSequences
    /\ seqs[i].pc = "delay500" /\ seqs'[i].pc = "winDelay"

\* C28: wins and round are incremented at most once per defeated opponent. They go up
\* only together, by one, in the step in which a sequence finds its opponent at 0 hp
\* after having attacked; a sequence that has counted its win never comes back to the
\* point where wins are counted; and no sequence starts against an opponent that is
\* already at 0 hp, so an attack command against a fainted opponent counts no win.
C28_OneWinPerDefeatedOpponent ==
    [][ /\ (gameState'.wins > gameState.wins \/ gameState'.round > gameState.round)
            => \E i \in 1..Len(seqs) :
                   /\ WinCounted(i)
                   /\ EnemyOf(gameState, seqs[i]).hp = 0
                   /\ seqs[i].attacks >= 1
                   /\ gameState'.wins = gameState.wins + 1
                   /\ gameState'.round = gameState.round + 1
        /\ \A i \in 1..Len(seqs) :
             (SameSequences /\ page' = "battle" /\ seqs[i].pc \in {"winDelay", "winFetch"})
                 => seqs'[i].pc \in {"winDelay", "winFetch"}
        /\ Len(seqs') = Len(seqs) + 1 => gameState.enemyPokemon.hp > 0
      ]_vars

\* C28 happens: a second opponent has been brought to 0 hp and the second win is
\* counted, after the replacement of the first.
C28_Witness ==
    /\ page = "battle"
    /\ Len(seqs) = 1 /\ seqs[1].pc = "winDelay"
    /\ EnemyOf(gameState, seqs[1]).hp = 0
    /\ gameState.wins = 2 /\ gameState.round = 3
    /\ getUserProfile(localStorage).stats.totalWins = 2

\* C29: round = wins + 1 in every reachable state, in the game state and in the saved
\* progress, across wins, partial and total defeats, timeouts and resets.
C29_RoundIsWinsPlusOne ==
    /\ gameState.round = gameState.wins + 1
    /\ gameState.wins >= 0
    /\ loadBattleProgress(localStorage).round = loadBattleProgress(localStorage).wins + 1

\* C29 happens: a win has been counted and a total defeat has followed it: the counters
\* are back at round 1, wins 0.
C29_Witness ==
    /\ page = "battle"
    /\ getUserProfile(localStorage).stats.totalWins >= 1
    /\ \A k \in 1..Len(gameState.playerTeam) : gameState.playerTeam[k].hp = 0
    /\ gameState.round = 1 /\ gameState.wins = 0
    /\ loadBattleProgress(localStorage) = [round |-> 1, wins |-> 0]

\* the game is idle: the battle page, not loading, no sequence running
Idle == page = "battle" /\ ~gameState.isLoading /\ ~gameState.isBattling

\* C30: whenever the game is idle, the active index is a valid party slot and the
\* active combatant has hp > 0 unless every party member has hp 0, after initial load,
\* manual switch, auto-switch, win, timeout and reset, a reset whose fetch fails
\* included.
C30_ActiveCombatantAliveWhenIdle ==
    Idle =>
        /\ gameState.activePlayerPokemon \in 0..(Len(gameState.playerTeam) - 1)
        /\ \/ gameState.playerTeam[gameState.activePlayerPokemon + 1].hp > 0
           \/ \A k \in 1..Len(gameState.playerTeam) : gameState.playerTeam[k].hp = 0

\* a step in which handleAttack starts a sequence
SequenceStarted == page' = "battle" /\ Len(seqs') = Len(seqs) + 1

\* C31: handleAttack starts a sequence only when the game is not loading, no sequence
\* is running and the active party combatant has hp > 0; from every other state no
\* step starts a sequence, and the step that starts one is the only thing an attack
\* command does (a refused command changes nothing).
C31_AttackStartsOnlyWhenReady ==
    [][ /\ SequenceStarted
            => /\ ~gameState.isLoading /\ ~gameState.isBattling
               /\ gameState.playerTeam[gameState.activePlayerPokemon + 1].hp > 0
               /\ gameState'.isBattling
        /\ (HandleAttack /\ ~SequenceStarted)
            => UNCHANGED <<gameState, localStorage, seqs>>
      ]_vars

\* C31 happens: the attack button can be clicked while the active combatant is at 0 hp
\* (the page was loaded again after a total defeat), and a sequence has been started
\* before.
C31_Witness ==
    /\ AttackClickable
    /\ ~gameState.isLoading /\ ~gameState.isBattling
    /\ gameState.playerTeam[gameState.activePlayerPokemon + 1].hp <= 0
    /\ Len(seqs) = 0
    /\ getUserProfile(localStorage).stats.totalBattles >= 1

\* the activation a has left the loop of runBattleSequence
AfterLoop(a) == a.pc \in {"delay500", "winDelay", "winFetch", "faintDelay", "defeatDelay"}

\* C32: the party combatant and the opponent of a sequence are never both at 0 hp, in
\* the loop or after it, so that at the end of the sequence at most one of the win
\* handling and the fainted handling runs, and neither is followed by the other.
C32_NotBothFainted ==
    [][ page' = "battle" =>
          /\ \A i \in 1..Len(seqs') :
               ~(PlayerOf(gameState', seqs'[i]).hp <= 0 /\ EnemyOf(gameState', seqs'[i]).hp <= 0)
          /\ \A i \in 1..Len(seqs) :
               (SameSequences /\ AfterLoop(seqs[i])) =>
                 /\ seqs[i].pc \in {"winDelay", "winFetch"}
                      => seqs'[i].pc \in {"winDelay", "winFetch"}
                 /\ seqs[i].pc \in {"faintDelay", "defeatDelay"} => seqs'[i].pc = seqs[i].pc
                 /\ seqs'[i].pc \in {"winDelay", "winFetch"}
                      => EnemyOf(gameState, seqs[i]).hp <= 0
                 /\ seqs'[i].pc \in {"faintDelay", "defeatDelay"}
                      => PlayerOf(gameState, seqs[i]).hp <= 0 /\ EnemyOf(gameState, seqs[i]).hp > 0
      ]_vars

\* C32 happens: a round's second attack has brought its defender to 0 hp and the loop
\* is left with the other combatant alive.
C32_Witness ==
    /\ Len(seqs) = 1 /\ seqs[1].pc = "delay500"
    /\ seqs[1].attacks = 2 * seqs[1].turnCount
    /\ \/ PlayerOf(gameState, seqs[1]).hp = 0 /\ EnemyOf(gameState, seqs[1]).hp > 0
       \/ PlayerOf(gameState, seqs[1]).hp > 0 /\ EnemyOf(gameState, seqs[1]).hp = 0

\* C33: every started sequence eventually clears isBattling, on every path (win with
\* and without replacement, fainting with auto-switch, total defeat, the round limit),
\* and the flag is set as long as the sequence lasts, its win or fainted handling and
\* the pending replacement fetch included.
C33_BusyFlagEventuallyCleared ==
    /\ [](\A i \in 1..Len(seqs) : gameState.isBattling)
    /\ (Len(seqs) > 0 /\ gameState.isBattling) ~> ~gameState.isBattling

\* C33 happens: a sequence has ended on the path of the failed replacement, and the
\* flag is clear.
C33_Witness ==
    /\ page = "battle" /\ Len(seqs) = 0
    /\ ~gameState.isBattling
    /\ gameState.enemyPokemon.hp = 0
    /\ getUserProfile(localStorage).stats.totalWins = 1
    /\ battleElements.disabled

\* the first combatant's attack has no effect on the second
CannotDamage(attacker, defender) ==
    getTypeEffectiveness(TypesOf(attacker), TypesOf(defender)) = Zero

\* C34: a sequence ends in the round-limit timeout only if each side either cannot
\* damage the other (its type multiplier against it is 0) or the other started the
\* sequence with more than 50 hp; if the party's attack has an effect and the opponent
\* started with at most 50 hp, the sequence does not time out.
C34_TimeoutNeedsImmunityOrHighHp ==
    \A i \in 1..Len(seqs) :
        Stalemate(i) =>
            /\ \/ CannotDamage(PlayerOf(gameState, seqs[i]), EnemyOf(gameState, seqs[i]))
               \/ seqs[i].startHp.enemy > 50
            /\ \/ CannotDamage(EnemyOf(gameState, seqs[i]), PlayerOf(gameState, seqs[i]))
               \/ seqs[i].startHp.player > 50

\* C34 happens: a sequence has timed out between two combatants that could hurt each
\* other; the opponent started with 51 hp and has 1 left.
C34_Witness ==
    /\ Len(seqs) = 1 /\ Stalemate(1)
    /\ ~CannotDamage(PlayerOf(gameState, seqs[1]), EnemyOf(gameState, seqs[1]))
    /\ ~CannotDamage(EnemyOf(gameState, seqs[1]), PlayerOf(gameState, seqs[1]))
    /\ seqs[1].startHp.enemy = 51
    /\ EnemyOf(gameState, seqs[1]).hp = 1


\* both combatants of the activation i are immune to the other's attacking type
MutualImmunity(i) ==
    /\ CannotDamage(PlayerOf(gameState, seqs[i]), EnemyOf(gameState, seqs[i]))
    /\ CannotDamage(EnemyOf(gameState, seqs[i]), PlayerOf(gameState, seqs[i]))

\* C35: a sequence between two combatants that are immune to each other's primary
\* type runs 50 rounds of two attacks each, every attack deals 0 damage, both hp
\* values stay what they were at its start, and it ends in the timeout outcome: it
\* leaves the loop with both alive after round 50 and its last step clears isBattling
\* and changes nothing else of the game.
C35_MutualImmunityRunsFiftyRounds ==
    /\ [](\A i \in 1..Len(seqs) : MutualImmunity(i) =>
            /\ PlayerOf(gameState, seqs[i]).hp = seqs[i].startHp.player
            /\ EnemyOf(gameState, seqs[i]).hp = seqs[i].startHp.enemy
            /\ InLoop(seqs[i]) \/ seqs[i].pc = "delay500"
            /\ seqs[i].attacks = IF seqs[i].pc \in {"showFirst", "delay800"}
                                 THEN 2 * seqs[i].turnCount - 1
                                 ELSE 2 * seqs[i].turnCount
            /\ call.fn = "executeAttack" => call.result.damage = 0
            /\ seqs[i].pc = "delay500" => seqs[i].turnCount = 50 /\ seqs[i].attacks = 100)
    /\ [][\A i \in 1..Len(seqs) : (MutualImmunity(i) /\ Ends(i)) =>
            /\ Stalemate(i)
            /\ gameState' = [gameState EXCEPT !.isBattling = FALSE]
            /\ localStorage' = localStorage]_vars
    /\ (\E i \in 1..Len(seqs) : MutualImmunity(i))
          ~> (\E i \in 1..Len(seqs) :
                 MutualImmunity(i) /\ Stalemate(i) /\ seqs[i].turnCount = 50)
    /\ (\E i \in 1..Len(seqs) : MutualImmunity(i)) ~> (Len(seqs) = 0)

\* C35 happens: a normal-type and a ghost-type have left the loop after round 50 and
\* attack 100, both with the hp they started with, the last attack having dealt 0.
C35_Witness ==
    /\ Len(seqs) = 1 /\ MutualImmunity(1) /\ Stalemate(1)
    /\ TypesOf(PlayerOf(gameState, seqs[1])) = <<"normal">>
    /\ TypesOf(EnemyOf(gameState, seqs[1])) = <<"ghost">>
    /\ seqs[1].turnCount = 50 /\ seqs[1].attacks = 100
    /\ PlayerOf(gameState, seqs[1]).hp = seqs[1].startHp.player
    /\ EnemyOf(gameState, seqs[1]).hp = seqs[1].startHp.enemy


\* the results determineTurnOrder can return for two combatants, over the draws
TurnOrders(pokemon1, pokemon2) ==
    { determineTurnOrder(pokemon1, pokemon2, jitter1, jitter2) :
        jitter1 \in CombatJitters, jitter2 \in CombatJitters }

\* strength(pokemon1) - strength(pokemon2), in hundredths
StrengthGap(pokemon1, pokemon2) == SpeedOfCall(pokemon1, 0) - SpeedOfCall(pokemon2, 0)

\* C36: if strength(a) >= strength(b) + 20, determineTurnOrder(a, b) is true whatever
\* the draws; if strength(b) >= strength(a) + 20 it is false whatever the draws; for a
\* gap below 20 both results can be returned.
C36_TurnOrderByStrengthBeyondJitter ==
    call.fn = "determineTurnOrder" =>
        /\ call.result \in TurnOrders(call.attacker, call.defender)
        /\ TurnOrders(call.attacker, call.defender) =
              IF StrengthGap(call.attacker, call.defender) >= 2000 THEN {TRUE}
              ELSE IF StrengthGap(call.defender, call.attacker) >= 2000 THEN {FALSE}
              ELSE BOOLEAN

\* C36 happens: a gap of exactly 20, the stronger with the lowest draw and the weaker
\* with the highest, and the stronger acts first.
C36_Witness ==
    /\ call.fn = "determineTurnOrder"
    /\ call.attacker.strength = 70 /\ call.defender.strength = 50
    /\ call.jitter1 = 0 /\ call.jitter2 = 1999
    /\ call.result


\* the amounts the pages spend: COSTS
Costs == {CostRevive, CostNewPokemon, CostHealAll}

\* the boolean spendCoins returns
spendCoinsReturns(ls, amount) == getUserProfile(ls).coins >= amount

\* C37: the balance is never negative. spendCoins of an amount above the balance
\* returns false and leaves the balance (and the storage) as it is; of any other amount
\* it returns true and takes exactly the amount off. No step of the game takes coins
\* except by an affordable cost, whatever revives, replacements (fetched or failed),
\* heal-alls and win rewards came before.
C37_CoinsNeverNegative ==
    /\ [](/\ getCoins(localStorage) >= 0
          /\ \A amount \in Costs :
                IF amount > getCoins(localStorage)
                THEN /\ ~spendCoinsReturns(localStorage, amount)
                     /\ spendCoins(localStorage, amount) = localStorage
                ELSE /\ spendCoinsReturns(localStorage, amount)
                     /\ getCoins(spendCoins(localStorage, amount))
                            = getCoins(localStorage) - amount
                     /\ getCoins(spendCoins(localStorage, amount)) >= 0)
    /\ [][getCoins(localStorage') < getCoins(localStorage) =>
              \E amount \in Costs :
                  /\ amount <= getCoins(localStorage)
                  /\ localStorage'.user = spendCoins(localStorage, amount).user]_vars

\* C37 happens: on the team page the balance is used up after a win reward and paid
\* services, and no cost is affordable.
C37_Witness ==
    /\ page = "team"
    /\ getCoins(localStorage) < CostRevive
    /\ getUserProfile(localStorage).stats.totalWins > 0
    /\ \A amount \in Costs : ~spendCoinsReturns(localStorage, amount)
    /\ \E k \in 1..Len(currentTeam) : currentTeam[k].hp <= 0


\* the battle statistics of the stored profile
StatsOf(ls) == getUserProfile(ls).stats

\* C38: whatever calls of recordBattleResult follow the default or a reset profile,
\* 0 <= currentStreak <= bestStreak <= totalWins <= totalBattles; every call adds
\* exactly 1 to totalBattles; a loss sets currentStreak to 0 and leaves bestStreak and
\* totalWins; a win adds 1 to totalWins and to currentStreak and never lowers
\* bestStreak.
C38_StatsOrdered ==
    /\ [](/\ 0 <= StatsOf(localStorage).currentStreak
          /\ StatsOf(localStorage).currentStreak <= StatsOf(localStorage).bestStreak
          /\ StatsOf(localStorage).bestStreak <= StatsOf(localStorage).totalWins
          /\ StatsOf(localStorage).totalWins <= StatsOf(localStorage).totalBattles)
    /\ [][call'.fn = "recordBattleResult" =>
            /\ StatsOf(localStorage').totalBattles = StatsOf(localStorage).totalBattles + 1
            /\ StatsOf(localStorage').bestStreak >= StatsOf(localStorage).bestStreak
            /\ IF call'.won
               THEN /\ StatsOf(localStorage').totalWins = StatsOf(localStorage).totalWins + 1
                    /\ StatsOf(localStorage').currentStreak
                          = StatsOf(localStorage).currentStreak + 1
               ELSE /\ StatsOf(localStorage').totalWins = StatsOf(localStorage).totalWins
                    /\ StatsOf(localStorage').currentStreak = 0
                    /\ StatsOf(localStorage').bestStreak = StatsOf(localStorage).bestStreak]_vars
    /\ [][call'.fn = "resetUserStats" =>
            /\ StatsOf(localStorage') = DEFAULT_PROFILE.stats
            /\ getCoins(localStorage') = getCoins(localStorage)]_vars

\* C38 happens: after a reset, two wins and a loss, the streak is 0 and the best
\* streak is still 2.
C38_Witness ==
    /\ call.fn = "recordBattleResult" /\ ~call.won
    /\ getCoins(localStorage) > DefaultCoins + 2 * RewardWinBattle
    /\ StatsOf(localStorage) =
          [totalBattles |-> 3, totalWins |-> 2, bestStreak |-> 2, currentStreak |-> 0]

=============================================================================
